---- MODULE Spec2Model ----
(***************************************************************************)
(* Over-the-air update coordination: the push-style coordinator            *)
(* (main_server), the notify-style coordinator (main_server_coap) and the  *)
(* records they keep in the Job Store.                                     *)
(*                                                                         *)
(* Timestamps are modelled by whether they are set.  A registry status of  *)
(* "offline" stands for every NodeStatus other than ONLINE: the            *)
(* coordinators only ever compare a status with ONLINE.                    *)
(***************************************************************************)
EXTENDS Integers, Sequences, FiniteSets, TLC

\* ------------------------------------------------------------------ bounds
\* Jobs submitted in one run, and target entries over all their requests.
MaxJobs == 1
MaxDispatch == 2
\* Install triggers delivered to the notify-style coordinator in one run.
MaxTriggers == 2
\* Jobs submitted in one run in which jobs overlap.
MaxOverlappingJobs == 2

NodeIds == {"A", "B"}
JobIds == 1..MaxOverlappingJobs

\* ------------------------------------------------------- values of the code
PENDING == "pending"
IN_PROGRESS == "in_progress"
SUCCESS == "success"
FAILED == "failed"
ROLLED_BACK == "rolled_back"
ONLINE == "online"
OFFLINE == "offline"

\* Python's None, a table row that does not exist, a field never written.
None == "none"

NoOnlineNodesMsg == "No online nodes available for update"
UnknownErrorMsg == "Unknown error"
HttpErrorMsg == "HTTP error"
TimeoutMsg == "Update timeout on node"
SendErrorMsg == "Error sending update to node"
CoapNotifyFailedMsg == "Failed to send CoAP notification"

\* What the remote install call can resolve to (update_manager.py:144-183).
RemoteOutcomes == {"ok_success", "ok_failure", "http_error", "timeout", "exception"}
\* What the remote rollback call can resolve to (update_manager.py:217-228).
RollbackOutcomes == {"ok_success", "ok_failure", "http_error", "exception"}

RECURSIVE SeqsUpTo(_, _)
SeqsUpTo(S, n) ==
    IF n = 0 THEN {<<>>}
    ELSE LET shorter == SeqsUpTo(S, n - 1)
         IN  shorter \cup {Append(s, x) : s \in {t \in shorter : Len(t) = n - 1}, x \in S}

\* UpdateRequest.target_nodes is a List[str]: order and repetition are kept.
TargetLists == SeqsUpTo(NodeIds, MaxDispatch)

Range(s) == {s[i] : i \in DOMAIN s}

VARIABLES
    registry,        \* nodes table: node_id -> status, None when not registered
    jobs,            \* the UpdateJob objects held by the push-style coordinator
    dbJobs,          \* update_jobs table of the push-style coordinator
    dbNodeStatuses,  \* node_update_statuses table: job_id -> node_id -> its rows
    pc,              \* position of each job's _execute_update_job task
    nodes,           \* the resolved `nodes` list of each job's execution
    tasks,           \* per job: state of each _send_update_to_node task
    results,         \* per job: what each finished dispatch task returned
    rbTasks,         \* per job, per node: state of its _send_rollback_to_node task
    nextJob,         \* number of jobs created so far
    \* the notify-style coordinator (main_server_coap)
    coapRegistry,    \* its nodes table
    coapJobs,        \* CoAPUpdateManager.active_jobs: the UpdateJob objects
    coapDbJobs,      \* its update_jobs table
    coapDbNodeStatuses, \* its node_update_statuses table
    coapExecs,       \* the _execute_update_job tasks created so far
    coapNextJob,     \* number of jobs it created so far
    \* both coordinators
    reply,           \* what the status query answered in the step just taken returned
    \* the node agents (regular_node, regular_node_coap)
    pipeline,        \* the install_update call of a node agent and what it did so far
    active_updates,  \* CoAPUpdateHandler.active_updates: ids of the updates announced
    runs,            \* the update tasks started on one node, each with its position
    \* the block-wise transfer of the notify-style coordinator
    transfer         \* the firmware file served, the last request and its response

pushVars == <<registry, jobs, dbJobs, dbNodeStatuses, pc, nodes, tasks, results,
              rbTasks, nextJob>>
coapVars == <<coapRegistry, coapJobs, coapDbJobs, coapDbNodeStatuses, coapExecs,
              coapNextJob>>
runVars == <<active_updates, runs>>
vars == <<pushVars, coapVars, reply, pipeline, runVars, transfer>>

\* The view of a job that does not exist.
NoView ==
    [status |-> None, started_at |-> FALSE, completed_at |-> FALSE,
     node_statuses |-> [n \in NodeIds |-> None], error_message |-> None]

\* The step just taken answered no status query.
Silent == [kind |-> "none", by |-> None, job |-> 0, view |-> NoView]
NoReply == reply' = Silent

\* ----------------------------------------------------------------- records
\* models.py UpdateJob as constructed by process_update_request.
NewJob(targets) ==
    [target_nodes |-> targets, status |-> PENDING, started_at |-> FALSE,
     completed_at |-> FALSE, node_statuses |-> [n \in NodeIds |-> None],
     error_message |-> None]

AbsentJob ==
    [target_nodes |-> <<>>, status |-> None, started_at |-> FALSE,
     completed_at |-> FALSE, node_statuses |-> [n \in NodeIds |-> None],
     error_message |-> None]

\* Database.create_update_job: the row INSERTed for a job.
DbCreateUpdateJob(job) ==
    [status |-> job.status, started_at |-> job.started_at,
     completed_at |-> job.completed_at, node_statuses |-> job.node_statuses,
     error_message |-> job.error_message]

AbsentRow == DbCreateUpdateJob(AbsentJob)

\* update_job_status stamping completed_at on every write.
DbUpdateJobStatusAlwaysStamps(row, status, error_message) ==
    IF row.status = None THEN row
    ELSE [row EXCEPT !.status = status,
                     !.error_message = error_message,
                     !.completed_at = TRUE]

\* Database.update_job_status: UPDATE ... SET status, error_message, completed_at.
DbUpdateJobStatus(row, status, error_message) ==
    IF row.status = None THEN row
    ELSE [row EXCEPT !.status = status,
                     !.error_message = error_message,
                     !.completed_at = (status \in {SUCCESS, FAILED, ROLLED_BACK})]

\* Database.create_node_update_status: the row INSERTed for a NodeUpdateStatus.
DbCreateNodeUpdateStatus(table, node_id, job_id, status) ==
    [table EXCEPT ![job_id][node_id] =
        Append(@, [status |-> status, completed_at |-> FALSE,
                   error_message |-> None, health_check_passed |-> FALSE,
                   writes |-> 0])]

\* update_node_update_status with WHERE node_id = ? only: the rows of the node
\* in every job are written.
DbUpdateNodeUpdateStatusAnyJob(table, node_id, job_id, status, error_message, health) ==
    [k \in DOMAIN table |->
        [table[k] EXCEPT ![node_id] =
            [i \in DOMAIN @ |->
                [@[i] EXCEPT !.status = status, !.completed_at = TRUE,
                             !.error_message = error_message,
                             !.health_check_passed = health,
                             !.writes = @ + 1]]]]

\* Database.update_node_update_status: UPDATE ... WHERE node_id = ? AND job_id = ?
\* (every matching row is written; `writes` counts the writes a row received).
DbUpdateNodeUpdateStatus(table, node_id, job_id, status, error_message, health) ==
    [table EXCEPT ![job_id][node_id] =
        [i \in DOMAIN @ |->
            [@[i] EXCEPT !.status = status, !.completed_at = TRUE,
                         !.error_message = error_message,
                         !.health_check_passed = health,
                         !.writes = @ + 1]]]

\* ============================================================ node agents
\* The two node agents: regular_node (called over HTTP by the push-style
\* coordinator) and regular_node_coap.
AgentKinds == {"regular_node", "regular_node_coap"}

\* update_type as install_update tests it; "other" is any value that is none
\* of the three it knows.
UpdateTypes == {"service", "driver", "package", "other"}

\* The locator of the payload, by the two tests the agents make on it.
Locators == {"http_deb", "http_other", "plain_deb", "plain_other"}
\* regular_node: package_url.startswith("http").
StartsWithHttp(l) == l \in {"http_deb", "http_other"}
\* regular_node_coap: download_path.suffix == '.deb', the path being named
\* after the ending of download_url (_download_update lines 194-201).
EndsWithDeb(l) == l \in {"http_deb", "plain_deb"}

\* The descriptor an install_update call receives; checksum says whether one
\* is declared.
Descriptors == [update_type : UpdateTypes, locator : Locators, checksum : BOOLEAN]

\* Commands that may return non-zero (or time out) within one install_update.
MaxFailedCommands == 1

HealthFailedMsg == "Health check failed after update"
ChecksumFailedMsg == "Checksum verification failed"
ServiceNotActiveMsg == "Service failed to start after update"
UnknownTypeMsg == "Unknown update type"
BackupErrorMsg == "backup error"
DownloadErrorMsg == "Failed to download file"
RestoreErrorMsg == "restore error"

\* A result dict of the agent: `keys` are the keys it carries, the other
\* fields their values (the default where the key is absent).
NoOutcome ==
    [keys |-> {}, success |-> FALSE, health_check_passed |-> FALSE,
     rolled_back |-> FALSE, error_message |-> None]

\* dict.get(key, default).
Get(o, key, default) == IF key \in o.keys THEN o[key] ELSE default

\* install_update's except branch: {"success": False, "error_message": str(e)}.
ExceptionOutcome(msg) ==
    [NoOutcome EXCEPT !.keys = {"success", "error_message"}, !.error_message = msg]

\* What the _install_*_update routines return on success ...
InstallSucceeded ==
    [NoOutcome EXCEPT !.keys = {"success", "message"}, !.success = TRUE]

\* ... and on failure.
InstallFailed(msg) ==
    [NoOutcome EXCEPT !.keys = {"success", "error_message"}, !.error_message = msg]

\* result["health_check_passed"] = health_check_passed.
WithHealth(result, h) ==
    [result EXCEPT !.keys = @ \cup {"health_check_passed"}, !.health_check_passed = h]

\* HealthFailedOutcome without the rolled_back key.
HealthFailedOutcomeNoFlag ==
    [NoOutcome EXCEPT !.keys = {"success", "error_message"},
                      !.error_message = HealthFailedMsg]

\* The dict returned after a failed health check.
HealthFailedOutcome ==
    [NoOutcome EXCEPT !.keys = {"success", "error_message", "rolled_back"},
                      !.rolled_back = TRUE, !.error_message = HealthFailedMsg]

\* The operations of _install_service_update, in order.
ServiceOps(agent, d, extract_dir) ==
    <<"systemctl stop">>
    \o (IF agent = "regular_node"
        THEN (IF StartsWithHttp(d.locator)
              THEN <<"download", "tar -xzf">> \o (IF extract_dir THEN <<"cp -r">> ELSE <<>>)
              ELSE <<>>)
        ELSE (IF EndsWithDeb(d.locator) THEN <<"dpkg -i">> ELSE <<>>))
    \o <<"systemctl daemon-reload", "systemctl enable", "systemctl start",
         "systemctl is-active">>

\* The operations of _install_driver_update.
DriverOps(agent, d) ==
    IF agent = "regular_node"
    THEN (IF StartsWithHttp(d.locator) THEN <<"download", "cp", "depmod", "modprobe">>
          ELSE <<>>)
    ELSE <<"rmmod", "cp", "depmod", "modprobe">>

\* The operations of _install_package_update.
PackageOps(agent, d) ==
    <<"apt-get update">>
    \o (IF agent = "regular_node"
        THEN (IF StartsWithHttp(d.locator) THEN <<"download", "dpkg -i">>
              ELSE <<"apt-get install">>)
        ELSE (IF EndsWithDeb(d.locator) THEN <<"dpkg -i">> ELSE <<"apt-get install">>))

InstallOps(agent, d, extract_dir) ==
    CASE d.update_type = "service" -> ServiceOps(agent, d, extract_dir)
      [] d.update_type = "driver" -> DriverOps(agent, d)
      [] OTHER -> PackageOps(agent, d)

\* The operations of _rollback_update.
RollbackOps(update_type) ==
    CASE update_type = "service" ->
            <<"systemctl stop", "restore files", "systemctl daemon-reload", "systemctl start">>
      [] update_type = "driver" -> <<"rmmod", "restore files", "depmod", "modprobe">>
      [] OTHER -> <<>>

\* Operations that raise when they fail; every other one goes through
\* _run_command, which returns the exit code and never raises.
Raising == {"download", "restore files"}

\* The live state an update owns on the node: the version of the files of
\* (package_name, update_type) and whether the service runs / the module is
\* loaded.  InitialLive is the state when install_update is called.
InitialLive == [version |-> "old", active |-> TRUE]

\* The files _rollback_update copies back.  For a service the unit file and
\* the /opt/services directory are replaced by their backups.  For a driver
\* the module directory is never backed up (its path holds the unexpanded
\* text "$(uname -r)", lines 100 and 287), so the module installed stays.
RestoreFiles(update_type, live) ==
    IF update_type = "service" THEN [live EXCEPT !.version = "old"] ELSE live

\* The live state after an operation; a command that fails changes nothing.
LiveAfter(live, update_type, op, ok) ==
    IF ~ok THEN live
    ELSE CASE op \in {"systemctl stop", "rmmod"} -> [live EXCEPT !.active = FALSE]
           [] op \in {"systemctl start", "modprobe"} -> [live EXCEPT !.active = TRUE]
           [] op \in {"cp -r", "cp", "dpkg -i", "apt-get install"} ->
                 [live EXCEPT !.version = "new"]
           [] op = "restore files" -> RestoreFiles(update_type, live)
           [] OTHER -> live

\* No install_update call is running.
IdlePipeline ==
    [agent |-> None, d |-> [update_type |-> "other", locator |-> "plain_other", checksum |-> FALSE],
     extract_dir |-> FALSE, pc |-> "idle", trace |-> <<>>, todo |-> <<>>,
     digest_match |-> TRUE, failed |-> 0, result |-> NoOutcome, outcome |-> NoOutcome,
     backup_exists |-> FALSE, live |-> InitialLive]

\* ----------------------------------------------------- block-wise transfer
\* Sizes of the firmware file, block-size exponents and block numbers tried.
MaxFileSize == 33
MaxSzx == 1
MaxBlockNum == 3
FileSizes == 0..MaxFileSize
SzxValues == 0..MaxSzx
BlockNums == 0..MaxBlockNum

\* 2 ** n.
RECURSIVE Pow2(_)
Pow2(n) == IF n = 0 THEN 1 ELSE 2 * Pow2(n - 1)

\* A firmware file of S bytes; the byte at each offset tells the offset.
FileOfSize(S) == [i \in 1..S |-> (i - 1) % 251]

\* f.seek(offset); f.read(n): at most n bytes from `offset`, none past the
\* end of the file.
ReadAt(file, offset, n) ==
    IF offset >= Len(file) THEN <<>>
    ELSE SubSeq(file, offset + 1, IF offset + n < Len(file) THEN offset + n ELSE Len(file))

\* A block option (num, m, szx), or its absence.
NoBlock == [present |-> FALSE, num |-> 0, m |-> FALSE, szx |-> 0]
Block(num, m, szx) == [present |-> TRUE, num |-> num, m |-> m, szx |-> szx]

\* A CoAP message as far as the transfer goes.
NoMessage == [code |-> None, payload |-> <<>>, block1 |-> NoBlock]

\* HandleBlockTransfer telling the last block by > instead of >=.
HandleBlockTransferMoreAtEnd(file, block1) ==
    LET block_size == Pow2(4 + block1.szx)
        data == ReadAt(file, block1.num * block_size, block_size)
        is_last_block == (block1.num + 1) * block_size > Len(file)
    IN  [code |-> "CONTENT", payload |-> data,
         block1 |-> Block(block1.num, ~is_last_block, block1.szx)]

\* HandleBlockTransfer seeking to the block number instead of the offset.
HandleBlockTransferSeekNum(file, block1) ==
    LET block_size == Pow2(4 + block1.szx)
        data == ReadAt(file, block1.num, block_size)
        is_last_block == (block1.num + 1) * block_size >= Len(file)
    IN  [code |-> "CONTENT", payload |-> data,
         block1 |-> Block(block1.num, ~is_last_block, block1.szx)]

\* UpdateResource._handle_block_transfer: the response to a request that
\* carries the block option `block1`, for the file at file_path.
HandleBlockTransfer(file, block1) ==
    LET block_size == Pow2(4 + block1.szx)
        data == ReadAt(file, block1.num * block_size, block_size)
        is_last_block == (block1.num + 1) * block_size >= Len(file)
    IN  [code |-> "CONTENT", payload |-> data,
         block1 |-> Block(block1.num, ~is_last_block, block1.szx)]

\* A payload that is text (JSON or a message), not bytes of a firmware file.
TextPayload == <<-1>>

\* A request URI: the host it names, the number of segments of its path
\* ("updates", the update id, ...) and whether its query holds
\* "action=download".
Uri(host, path_len, download) == [host |-> host, path_len |-> path_len, download |-> download]
NoUri == Uri(None, 0, FALSE)
MainServerCoap == "main_server_coap"

\* _send_update_notification: the download_url of the notification sent to
\* `node` for `job` is coap://{node.ip_address}:5683/updates/{job_id}/download.
DownloadUrl(node, job) == Uri(node, 3, FALSE)

\* UpdateResource._handle_download of the coordinator.
HandleDownload(exists, file, request) ==
    IF ~exists THEN [code |-> "NOT_FOUND", payload |-> TextPayload, block1 |-> NoBlock]
    ELSE IF request.block1.present THEN HandleBlockTransfer(file, request.block1)
    ELSE [code |-> "CONTENT", payload |-> file, block1 |-> request.block1]

\* get_update_info answered over GET: the info of the update, or NOT_FOUND.
UpdateInfoResponse(exists) ==
    IF exists THEN [code |-> "CONTENT", payload |-> TextPayload, block1 |-> NoBlock]
    ELSE [code |-> "NOT_FOUND", payload |-> TextPayload, block1 |-> NoBlock]

\* UpdateResource.render_get of the coordinator, branch by branch: the
\* second test of a two-segment path repeats the first and is never taken.
RenderGet(exists, file, uri, request) ==
    IF uri.path_len = 0 \/ uri.path_len = 1
    THEN [code |-> "CONTENT", payload |-> TextPayload, block1 |-> NoBlock]
    ELSE IF uri.path_len = 2 THEN UpdateInfoResponse(exists)
    ELSE IF uri.path_len = 2
         THEN (IF uri.download THEN HandleDownload(exists, file, request)
               ELSE UpdateInfoResponse(exists))
    ELSE [code |-> "BAD_REQUEST", payload |-> TextPayload, block1 |-> NoBlock]

\* NodeUpdateResource.render_get of regular_node_coap: the status of the
\* update for a two-segment path, "Invalid path" otherwise.
NodeRenderGet(uri) ==
    IF uri.path_len = 2
    THEN [code |-> "CONTENT", payload |-> TextPayload, block1 |-> NoBlock]
    ELSE [code |-> "BAD_REQUEST", payload |-> TextPayload, block1 |-> NoBlock]

\* response.code.is_successful().
IsSuccessful(code) == code \in {"CONTENT", "CHANGED", "CREATED"}

\* No firmware file is being served and the node has asked for none.
NoTransfer ==
    [state |-> "idle", file |-> <<>>, szx |-> 0, next |-> 0, received |-> <<>>,
     uri |-> NoUri, request |-> NoMessage, response |-> NoMessage,
     download |-> "none", download_path |-> <<>>]

\* ------------------------------------------------------------------- Init
PushInit ==
    /\ registry = [n \in NodeIds |-> None]
    /\ jobs = [j \in JobIds |-> AbsentJob]
    /\ dbJobs = [j \in JobIds |-> AbsentRow]
    /\ dbNodeStatuses = [j \in JobIds |-> [n \in NodeIds |-> <<>>]]
    /\ pc = [j \in JobIds |-> None]
    /\ nodes = [j \in JobIds |-> <<>>]
    /\ tasks = [j \in JobIds |-> <<>>]
    /\ results = [j \in JobIds |-> <<>>]
    /\ rbTasks = [j \in JobIds |-> [n \in NodeIds |-> None]]
    /\ nextJob = 0

CoapInit ==
    /\ coapRegistry = [n \in NodeIds |-> None]
    /\ coapJobs = [j \in JobIds |-> AbsentJob]
    /\ coapDbJobs = [j \in JobIds |-> AbsentRow]
    /\ coapDbNodeStatuses = [j \in JobIds |-> [n \in NodeIds |-> <<>>]]
    /\ coapExecs = <<>>
    /\ coapNextJob = 0

NodeInit ==
    /\ pipeline = IdlePipeline
    /\ active_updates = {}
    /\ runs = <<>>

Init == PushInit /\ CoapInit /\ reply = Silent /\ NodeInit /\ transfer = NoTransfer

\* ------------------------------------------------------------ node registry
\* POST /api/nodes/register -> Database.register_node (INSERT OR REPLACE).
RegisterNode(n, s) ==
    /\ registry' = [registry EXCEPT ![n] = s]
    /\ UNCHANGED <<jobs, dbJobs, dbNodeStatuses, pc, nodes, tasks, results,
                   rbTasks, nextJob>>
    /\ UNCHANGED <<coapVars, pipeline, runVars, transfer>>
    /\ NoReply

\* POST /api/nodes/{id}/status -> Database.update_node_status (UPDATE, 404 if absent).
UpdateNodeStatus(n, s) ==
    /\ registry[n] # None
    /\ registry' = [registry EXCEPT ![n] = s]
    /\ UNCHANGED <<jobs, dbJobs, dbNodeStatuses, pc, nodes, tasks, results,
                   rbTasks, nextJob>>
    /\ UNCHANGED <<coapVars, pipeline, runVars, transfer>>
    /\ NoReply

\* ------------------------------------------------------------------ Submit
\* ValidateTargets without the ONLINE test: every listed node is registered.
ValidateTargetsRegistered(targets) ==
    \A i \in DOMAIN targets : registry[targets[i]] # None

\* main.py create_update, lines 134-140: every listed node is registered and ONLINE.
ValidateTargets(targets) ==
    \A i \in DOMAIN targets : registry[targets[i]] = ONLINE

\* Target entries of the requests accepted so far.
RECURSIVE SumLen(_)
SumLen(J) ==
    IF J = {} THEN 0
    ELSE LET j == CHOOSE k \in J : TRUE
         IN  Len(jobs[j].target_nodes) + SumLen(J \ {j})

TargetsUsed == SumLen(JobIds)

\* POST /api/updates accepted: process_update_request creates and persists the
\* job and schedules _execute_update_job.
SubmitJob(cap, targets) ==
    /\ nextJob < cap
    /\ Len(targets) + TargetsUsed <= MaxDispatch
    /\ ValidateTargets(targets)
    /\ LET j == nextJob + 1
           job == NewJob(targets)
       IN  /\ jobs' = [jobs EXCEPT ![j] = job]
           /\ dbJobs' = [dbJobs EXCEPT ![j] = DbCreateUpdateJob(job)]
           /\ pc' = [pc EXCEPT ![j] = "scheduled"]
           /\ nextJob' = j
    /\ UNCHANGED <<registry, dbNodeStatuses, nodes, tasks, results, rbTasks>>
    /\ UNCHANGED <<coapVars, pipeline, runVars, transfer>>
    /\ NoReply

\* POST /api/updates accepted, in a run of at most MaxJobs jobs.
Submit(targets) == SubmitJob(MaxJobs, targets)

\* HTTP status of POST /api/updates (create_update lines 134-149).
CreateUpdateResponse(targets) == IF ValidateTargets(targets) THEN 200 ELSE 400

\* POST /api/updates refused with HTTP 400 before process_update_request:
\* nothing is created, persisted or scheduled.
SubmitRejected(targets) ==
    /\ nextJob < MaxJobs
    /\ ~ValidateTargets(targets)
    /\ UNCHANGED <<pushVars, coapVars, pipeline, runVars, transfer>>
    /\ NoReply

\* ----------------------------------------------------------------- Execute
\* ExecuteStart without the IN_PROGRESS assignment and its write.
ExecuteStartKeepsPending(j) ==
    /\ pc[j] = "scheduled"
    /\ pc' = [pc EXCEPT ![j] = "resolve"]
    /\ UNCHANGED <<registry, jobs, dbJobs, dbNodeStatuses, nodes, tasks, results,
                   rbTasks, nextJob>>
    /\ UNCHANGED <<coapVars, pipeline, runVars, transfer>>
    /\ NoReply

\* _execute_update_job lines 47-50.
ExecuteStart(j) ==
    /\ pc[j] = "scheduled"
    /\ jobs' = [jobs EXCEPT ![j].status = IN_PROGRESS, ![j].started_at = TRUE]
    /\ dbJobs' = [dbJobs EXCEPT ![j] = DbUpdateJobStatus(@, IN_PROGRESS, None)]
    /\ pc' = [pc EXCEPT ![j] = "resolve"]
    /\ UNCHANGED <<registry, dbNodeStatuses, nodes, tasks, results, rbTasks,
                   nextJob>>
    /\ UNCHANGED <<coapVars, pipeline, runVars, transfer>>
    /\ NoReply

\* ResolveNodes without the ONLINE test: every registered target.
ResolveNodesAnyStatus(targets) ==
    SelectSeq(targets, LAMBDA n : registry[n] # None)

\* _execute_update_job lines 55-61: the targets that are registered and ONLINE.
ResolveNodes(targets) ==
    SelectSeq(targets, LAMBDA n : registry[n] = ONLINE)

\* The except branch of _execute_update_job, lines 113-118.
JobFailedWith(j, msg) ==
    /\ jobs' = [jobs EXCEPT ![j].status = FAILED, ![j].error_message = msg,
                            ![j].completed_at = TRUE]
    /\ dbJobs' = [dbJobs EXCEPT ![j] = DbUpdateJobStatus(@, FAILED, msg)]

\* _execute_update_job lines 54-75: resolve, fail when nothing is online,
\* otherwise create one dispatch task per resolved node and await them.
ExecuteResolve(j) ==
    /\ pc[j] = "resolve"
    /\ LET ns == ResolveNodes(jobs[j].target_nodes)
       IN  IF ns = <<>>
           THEN /\ JobFailedWith(j, NoOnlineNodesMsg)
                /\ pc' = [pc EXCEPT ![j] = "done"]
                /\ UNCHANGED <<nodes, tasks, results>>
           ELSE /\ nodes' = [nodes EXCEPT ![j] = ns]
                /\ tasks' = [tasks EXCEPT ![j] = [i \in DOMAIN ns |-> "created"]]
                /\ results' = [results EXCEPT ![j] = [i \in DOMAIN ns |-> None]]
                /\ pc' = [pc EXCEPT ![j] = "gather"]
                /\ UNCHANGED <<jobs, dbJobs>>
    /\ UNCHANGED <<registry, dbNodeStatuses, rbTasks, nextJob>>
    /\ UNCHANGED <<coapVars, pipeline, runVars, transfer>>
    /\ NoReply

\* --------------------------------------------------------------- Dispatch
\* _send_update_to_node lines 123-144: the task starts, INSERTs its
\* NodeUpdateStatus row and issues POST /agent/update to the node.  The tasks
\* of a job were created back to back (lines 68-72), so the event loop runs
\* their first steps in list order, before any response is handled.
SendUpdateStart(j, i) ==
    /\ pc[j] = "gather"
    /\ i \in DOMAIN tasks[j]
    /\ tasks[j][i] = "created"
    /\ \A k \in 1..(i - 1) : tasks[j][k] # "created"
    /\ dbNodeStatuses' = DbCreateNodeUpdateStatus(dbNodeStatuses, nodes[j][i], j, IN_PROGRESS)
    /\ tasks' = [tasks EXCEPT ![j][i] = "sent"]
    /\ UNCHANGED <<registry, jobs, dbJobs, pc, nodes, results, rbTasks, nextJob>>
    /\ UNCHANGED <<coapVars, pipeline, runVars, transfer>>
    /\ NoReply

\* result.get('success', False) of what the task returns (lines 149, 160-183).
ResultOf(outcome) == IF outcome = "ok_success" THEN SUCCESS ELSE FAILED

\* The error_message the task writes (lines 157, 162, 170, 178).
ErrorOf(outcome) ==
    CASE outcome = "ok_success" -> None
      [] outcome = "ok_failure" -> UnknownErrorMsg
      [] outcome = "http_error" -> HttpErrorMsg
      [] outcome = "timeout" -> TimeoutMsg
      [] OTHER -> SendErrorMsg

\* _send_update_to_node lines 145-158: the terminal status written for an
\* HTTP 200 response whose body is the agent's result dict.
StatusWrittenFor(result) ==
    IF Get(result, "success", FALSE)
    THEN [status |-> SUCCESS, error_message |-> None,
          health_check_passed |-> Get(result, "health_check_passed", FALSE)]
    ELSE [status |-> FAILED, health_check_passed |-> FALSE,
          error_message |-> Get(result, "error_message", UnknownErrorMsg)]

\* SendUpdateFinish letting an exception of the call leave the task and the
\* gather: _execute_update_job's except branch fails the job with the error.
SendUpdateFinishPropagates(j, i, outcome, health) ==
    /\ pc[j] = "gather"
    /\ i \in DOMAIN tasks[j]
    /\ tasks[j][i] = "sent"
    /\ \A k \in DOMAIN tasks[j] : tasks[j][k] # "created"
    /\ (outcome # "ok_success") => ~health
    /\ tasks' = [tasks EXCEPT ![j][i] = "done"]
    /\ results' = [results EXCEPT ![j][i] = ResultOf(outcome)]
    /\ IF outcome = "exception"
       THEN /\ JobFailedWith(j, SendErrorMsg)
            /\ pc' = [pc EXCEPT ![j] = "done"]
            /\ UNCHANGED dbNodeStatuses
       ELSE /\ dbNodeStatuses' = DbUpdateNodeUpdateStatus(dbNodeStatuses, nodes[j][i], j,
                                     ResultOf(outcome), ErrorOf(outcome), health)
            /\ UNCHANGED <<jobs, dbJobs, pc>>
    /\ UNCHANGED <<registry, nodes, rbTasks, nextJob>>
    /\ UNCHANGED <<coapVars, pipeline, runVars, transfer>>
    /\ NoReply

\* _send_update_to_node lines 145-183: the call resolved (response, timeout or
\* error); the task writes the terminal status and returns its result.
SendUpdateFinish(j, i, outcome, health) ==
    /\ pc[j] = "gather"
    /\ i \in DOMAIN tasks[j]
    /\ tasks[j][i] = "sent"
    /\ \A k \in DOMAIN tasks[j] : tasks[j][k] # "created"
    /\ (outcome # "ok_success") => ~health
    /\ dbNodeStatuses' = DbUpdateNodeUpdateStatus(dbNodeStatuses, nodes[j][i], j,
                             ResultOf(outcome), ErrorOf(outcome), health)
    /\ tasks' = [tasks EXCEPT ![j][i] = "done"]
    /\ results' = [results EXCEPT ![j][i] = ResultOf(outcome)]
    /\ UNCHANGED <<registry, jobs, dbJobs, pc, nodes, rbTasks, nextJob>>
    /\ UNCHANGED <<coapVars, pipeline, runVars, transfer>>
    /\ NoReply

\* ------------------------------------------------------------ Aggregation
\* _execute_update_job lines 78-93: the counters.
SuccessCount(res) == Cardinality({i \in DOMAIN res : res[i] = SUCCESS})
FailedCount(res) == Cardinality({i \in DOMAIN res : res[i] # SUCCESS})

\* lines 81-93: job.node_statuses[node.node_id] is assigned in list order, so
\* the last task of a node decides its entry.
NodeStatusesAfter(old, ns, res) ==
    [n \in NodeIds |->
        LET idx == {i \in DOMAIN ns : ns[i] = n}
        IN  IF idx = {} THEN old[n]
            ELSE LET last == CHOOSE i \in idx : \A k \in idx : k <= i
                 IN  IF res[last] = SUCCESS THEN SUCCESS ELSE FAILED]

\* AggregateStatus testing the wrong counter: SUCCESS as soon as one succeeded.
AggregateStatusAnySuccess(success_count, failed_count) ==
    IF success_count > 0 THEN SUCCESS ELSE FAILED

\* lines 96-108: the job's status from the counters.
AggregateStatus(success_count, failed_count) ==
    IF failed_count = 0 THEN SUCCESS ELSE FAILED

\* FailedNodes skipping the nodes that are no longer ONLINE.
FailedNodesStillOnline(node_statuses) ==
    {n \in NodeIds : node_statuses[n] = FAILED /\ registry[n] = ONLINE}

\* _rollback_failed_nodes lines 190-204: the nodes a rollback task is created
\* for (registered nodes whose entry of job.node_statuses is FAILED).
FailedNodes(node_statuses) ==
    {n \in NodeIds : node_statuses[n] = FAILED /\ registry[n] # None}

\* lines 96-111 up to the first suspension: set the status; on failure create
\* the rollback tasks and await them; with nothing to await, finish at once.
Aggregate(j) ==
    /\ pc[j] = "gather"
    /\ \A i \in DOMAIN tasks[j] : tasks[j][i] = "done"
    /\ LET statuses == NodeStatusesAfter(jobs[j].node_statuses, nodes[j], results[j])
           status == AggregateStatus(SuccessCount(results[j]), FailedCount(results[j]))
           rb == IF status = SUCCESS THEN {} ELSE FailedNodes(statuses)
       IN  IF rb = {}
           THEN /\ jobs' = [jobs EXCEPT ![j].node_statuses = statuses,
                                        ![j].status = status,
                                        ![j].completed_at = TRUE]
                /\ dbJobs' = [dbJobs EXCEPT ![j] = DbUpdateJobStatus(@, status, None)]
                /\ pc' = [pc EXCEPT ![j] = "done"]
                /\ UNCHANGED rbTasks
           ELSE /\ jobs' = [jobs EXCEPT ![j].node_statuses = statuses,
                                        ![j].status = status]
                /\ rbTasks' = [rbTasks EXCEPT ![j] =
                                  [n \in NodeIds |-> IF n \in rb THEN "created" ELSE None]]
                /\ pc' = [pc EXCEPT ![j] = "rollback"]
                /\ UNCHANGED dbJobs
    /\ UNCHANGED <<registry, dbNodeStatuses, nodes, tasks, results, nextJob>>
    /\ UNCHANGED <<coapVars, pipeline, runVars, transfer>>
    /\ NoReply

\* --------------------------------------------------------------- Rollback
\* Position of a node in the dict job.node_statuses (first insertion), which
\* is the order of failed_nodes and of the rollback tasks (lines 190-204).
FirstIndex(ns, n) ==
    IF \E i \in DOMAIN ns : ns[i] = n
    THEN CHOOSE i \in DOMAIN ns : ns[i] = n /\ \A k \in DOMAIN ns : ns[k] = n => i <= k
    ELSE 0

\* _send_rollback_to_node lines 212-217: POST /agent/rollback with the job_id.
RollbackSend(j, n) ==
    /\ pc[j] = "rollback"
    /\ rbTasks[j][n] = "created"
    /\ \A m \in NodeIds : rbTasks[j][m] = "created" => FirstIndex(nodes[j], n) <= FirstIndex(nodes[j], m)
    /\ rbTasks' = [rbTasks EXCEPT ![j][n] = "sent"]
    /\ UNCHANGED <<registry, jobs, dbJobs, dbNodeStatuses, pc, nodes, tasks,
                   results, nextJob>>
    /\ UNCHANGED <<coapVars, pipeline, runVars, transfer>>
    /\ NoReply

\* _send_rollback_to_node lines 218-228: the call resolved; the outcome is
\* only logged.
RollbackResolve(j, n, outcome) ==
    /\ pc[j] = "rollback"
    /\ rbTasks[j][n] = "sent"
    /\ \A m \in NodeIds : rbTasks[j][m] # "created"
    /\ outcome \in RollbackOutcomes
    /\ rbTasks' = [rbTasks EXCEPT ![j][n] = "done"]
    /\ UNCHANGED <<registry, jobs, dbJobs, dbNodeStatuses, pc, nodes, tasks,
                   results, nextJob>>
    /\ UNCHANGED <<coapVars, pipeline, runVars, transfer>>
    /\ NoReply

\* Complete without waiting for the rollback tasks.
CompleteBeforeRollbackResolved(j) ==
    /\ pc[j] = "rollback"
    /\ jobs' = [jobs EXCEPT ![j].completed_at = TRUE]
    /\ dbJobs' = [dbJobs EXCEPT ![j] = DbUpdateJobStatus(@, jobs[j].status, None)]
    /\ pc' = [pc EXCEPT ![j] = "done"]
    /\ UNCHANGED <<registry, dbNodeStatuses, nodes, tasks, results, rbTasks,
                   nextJob>>
    /\ UNCHANGED <<coapVars, pipeline, runVars, transfer>>
    /\ NoReply

\* _execute_update_job lines 110-111 after the rollback tasks were gathered.
Complete(j) ==
    /\ pc[j] = "rollback"
    /\ \A n \in NodeIds : rbTasks[j][n] \in {None, "done"}
    /\ jobs' = [jobs EXCEPT ![j].completed_at = TRUE]
    /\ dbJobs' = [dbJobs EXCEPT ![j] = DbUpdateJobStatus(@, jobs[j].status, None)]
    /\ pc' = [pc EXCEPT ![j] = "done"]
    /\ UNCHANGED <<registry, dbNodeStatuses, nodes, tasks, results, rbTasks,
                   nextJob>>
    /\ UNCHANGED <<coapVars, pipeline, runVars, transfer>>
    /\ NoReply

\* ============================================== notify-style coordinator
\* main_server_coap/app/database.py update_job_status: UPDATE ... SET status,
\* error_message (completed_at is not a column it writes).
CoapDbUpdateJobStatus(row, status, error_message) ==
    IF row.status = None THEN row
    ELSE [row EXCEPT !.status = status, !.error_message = error_message]

\* main_server_coap/app/database.py create_node_update_status.
CoapDbCreateNodeUpdateStatus(table, node_id, job_id, status) ==
    [table EXCEPT ![job_id][node_id] =
        Append(@, [status |-> status, completed_at |-> FALSE,
                   error_message |-> None, health_check_passed |-> FALSE,
                   writes |-> 0])]

\* main_server_coap/app/database.py update_node_update_status.
CoapDbUpdateNodeUpdateStatus(table, node_id, job_id, status, error_message, health) ==
    [table EXCEPT ![job_id][node_id] =
        [i \in DOMAIN @ |->
            [@[i] EXCEPT !.status = status, !.completed_at = TRUE,
                         !.error_message = error_message,
                         !.health_check_passed = health,
                         !.writes = @ + 1]]]

\* NodeResource.render_post -> Database.register_node (INSERT OR REPLACE).
CoapRegisterNode(n, s) ==
    /\ coapRegistry' = [coapRegistry EXCEPT ![n] = s]
    /\ UNCHANGED <<coapJobs, coapDbJobs, coapDbNodeStatuses, coapExecs, coapNextJob>>
    /\ UNCHANGED <<pushVars, pipeline, runVars, transfer>>
    /\ NoReply

\* The shapes of the argument create_update is called with: the UpdateRequest
\* object UpdateResource.render_post passes, a dict whose update_type is a
\* plain string, a dict whose update_type is an UpdateType member.
RequestShapes == {"request_object", "dict_plain", "dict_enum"}

\* create_update lines 26-49: _parse_update_request calls data.get (an
\* UpdateRequest object has none), and Database.create_update_job reads
\* update_type.value (a plain string has none) and then returns False.
CoapCreateSucceeds(shape) == shape = "dict_enum"

\* Target entries of the requests the notify-style coordinator accepted so far.
RECURSIVE CoapSumLen(_)
CoapSumLen(J) ==
    IF J = {} THEN 0
    ELSE LET j == CHOOSE k \in J : TRUE
         IN  Len(coapJobs[j].target_nodes) + CoapSumLen(J \ {j})

CoapTargetsUsed == CoapSumLen(JobIds)

\* CoAPUpdateManager.create_update returning a job id.
CoapCreateUpdate(shape, targets) ==
    /\ coapNextJob < MaxJobs
    /\ Len(targets) + CoapTargetsUsed <= MaxDispatch
    /\ CoapCreateSucceeds(shape)
    /\ LET j == coapNextJob + 1
           job == NewJob(targets)
       IN  /\ coapJobs' = [coapJobs EXCEPT ![j] = job]
           /\ coapDbJobs' = [coapDbJobs EXCEPT ![j] = DbCreateUpdateJob(job)]
           /\ coapNextJob' = j
    /\ UNCHANGED <<coapRegistry, coapDbNodeStatuses, coapExecs>>
    /\ UNCHANGED <<pushVars, pipeline, runVars, transfer>>
    /\ NoReply

\* CoAPUpdateManager.create_update raising: no job is stored.
CoapCreateUpdateFails(shape, targets) ==
    /\ coapNextJob < MaxJobs
    /\ Len(targets) + CoapTargetsUsed <= MaxDispatch
    /\ ~CoapCreateSucceeds(shape)
    /\ UNCHANGED <<pushVars, coapVars, pipeline, runVars, transfer>>
    /\ NoReply

\* trigger_update lines 58-75: any job of active_jobs is set IN_PROGRESS
\* and a new _execute_update_job task is created for it.
CoapTriggerUpdate(j) ==
    /\ coapJobs[j].status # None
    /\ Len(coapExecs) < MaxTriggers
    /\ coapJobs' = [coapJobs EXCEPT ![j].status = IN_PROGRESS, ![j].started_at = TRUE]
    /\ coapDbJobs' = [coapDbJobs EXCEPT ![j] = CoapDbUpdateJobStatus(@, IN_PROGRESS, None)]
    /\ coapExecs' = Append(coapExecs, [job |-> j, pc |-> "scheduled", nodes |-> <<>>, idx |-> 0])
    /\ UNCHANGED <<coapRegistry, coapDbNodeStatuses, coapNextJob>>
    /\ UNCHANGED <<pushVars, pipeline, runVars, transfer>>
    /\ NoReply

\* trigger_update lines 58-59: "Job not found".
CoapTriggerUnknown(j) ==
    /\ coapJobs[j].status = None
    /\ UNCHANGED <<pushVars, coapVars, pipeline, runVars, transfer>>
    /\ NoReply

\* _execute_update_job lines 86-93 of the notify-style coordinator.
CoapResolveNodes(targets) ==
    SelectSeq(targets, LAMBDA n : coapRegistry[n] = ONLINE)

\* _execute_update_job lines 84-109 up to the first suspension: resolve; with
\* nothing online fail the job; otherwise start notifying the first node
\* (_send_update_notification lines 114-141: INSERT the row, send the message).
CoapExecuteStart(e) ==
    /\ e \in DOMAIN coapExecs
    /\ coapExecs[e].pc = "scheduled"
    /\ LET j == coapExecs[e].job
           ns == CoapResolveNodes(coapJobs[j].target_nodes)
       IN  IF ns = <<>>
           THEN /\ coapJobs' = [coapJobs EXCEPT ![j].status = FAILED,
                                                ![j].error_message = NoOnlineNodesMsg,
                                                ![j].completed_at = TRUE]
                /\ coapDbJobs' = [coapDbJobs EXCEPT
                                    ![j] = CoapDbUpdateJobStatus(@, FAILED, NoOnlineNodesMsg)]
                /\ coapExecs' = [coapExecs EXCEPT ![e].pc = "done"]
                /\ UNCHANGED coapDbNodeStatuses
           ELSE /\ coapDbNodeStatuses' =
                      CoapDbCreateNodeUpdateStatus(coapDbNodeStatuses, ns[1], j, PENDING)
                /\ coapExecs' = [coapExecs EXCEPT ![e].pc = "notify", ![e].nodes = ns,
                                                  ![e].idx = 1]
                /\ UNCHANGED <<coapJobs, coapDbJobs>>
    /\ UNCHANGED <<coapRegistry, coapNextJob>>
    /\ UNCHANGED <<pushVars, pipeline, runVars, transfer>>
    /\ NoReply

\* _send_update_notification lines 143-158 for the node being notified, then
\* the next round of the loop at _execute_update_job lines 99-102.
CoapNotifyResolve(e, sent) ==
    /\ e \in DOMAIN coapExecs
    /\ coapExecs[e].pc = "notify"
    /\ LET j == coapExecs[e].job
           ns == coapExecs[e].nodes
           i == coapExecs[e].idx
           marked == IF sent THEN coapDbNodeStatuses
                     ELSE CoapDbUpdateNodeUpdateStatus(coapDbNodeStatuses, ns[i], j,
                              FAILED, CoapNotifyFailedMsg, FALSE)
       IN  IF i < Len(ns)
           THEN /\ coapDbNodeStatuses' =
                      CoapDbCreateNodeUpdateStatus(marked, ns[i + 1], j, PENDING)
                /\ coapExecs' = [coapExecs EXCEPT ![e].idx = i + 1]
           ELSE /\ coapDbNodeStatuses' = marked
                /\ coapExecs' = [coapExecs EXCEPT ![e].pc = "done"]
    /\ UNCHANGED <<coapRegistry, coapJobs, coapDbJobs, coapNextJob>>
    /\ UNCHANGED <<pushVars, pipeline, runVars, transfer>>
    /\ NoReply

CoapNext ==
    \/ \E n \in NodeIds, s \in {ONLINE, OFFLINE} : CoapRegisterNode(n, s)
    \/ \E sh \in RequestShapes, t \in TargetLists : CoapCreateUpdate(sh, t)
    \/ \E sh \in RequestShapes, t \in TargetLists : CoapCreateUpdateFails(sh, t)
    \/ \E j \in JobIds : CoapTriggerUpdate(j)
    \/ \E j \in JobIds : CoapTriggerUnknown(j)
    \/ \E e \in 1..MaxTriggers : CoapExecuteStart(e)
    \/ \E e \in 1..MaxTriggers, sent \in BOOLEAN : CoapNotifyResolve(e, sent)

SpecCoap == Init /\ [][CoapNext]_vars

\* ------------------------------------------------- node agents: the steps
\* One entry of the record of what the call did: a routine of install_update
\* being called (op = "call") or an operation a routine performed.
Did(step, op, ok) == [step |-> step, op |-> op, ok |-> ok]

\* install_update returning `o`.
Return(p, o) == [p EXCEPT !.pc = "returned", !.outcome = o, !.todo = <<>>]

\* install_update lines 39-46: the type-specific routine is called, or
\* ValueError is raised for a type that is none of the three.
EnterInstall(p) ==
    IF p.d.update_type = "other" THEN Return(p, ExceptionOutcome(UnknownTypeMsg))
    ELSE [p EXCEPT !.pc = "install",
                   !.trace = Append(@, Did("install", "call", TRUE)),
                   !.todo = InstallOps(p.agent, p.d, p.extract_dir)]

\* install_update lines 55 and 63: _rollback_update is called; with nothing
\* to do for the type it returns at once and install_update returns.
EnterRollback(p, result) ==
    LET q == [p EXCEPT !.trace = Append(@, Did("rollback", "call", TRUE)),
                       !.result = result,
                       !.todo = RollbackOps(p.d.update_type)]
    IN  IF q.todo # <<>> THEN [q EXCEPT !.pc = "rollback"]
        ELSE Return(q, IF result.success THEN HealthFailedOutcome ELSE result)

\* install_update lines 48-63 once the install routine returned `result`.
AfterInstall(p, result) ==
    IF result.success THEN [p EXCEPT !.pc = "health", !.result = result, !.todo = <<>>]
    ELSE EnterRollback(p, result)

\* POST /agent/update (regular_node) or _process_update (regular_node_coap)
\* calls install_update, which calls _create_backup.  `pipeline` follows one
\* call from its first statement to its return; calls that overlap on a node
\* are followed, by their suspension points, in `runs`.
NodeReceiveUpdate(agent, d, extract_dir) ==
    /\ pipeline.pc \in {"idle", "returned"}
    /\ pipeline' = [IdlePipeline EXCEPT !.agent = agent, !.d = d,
                                        !.extract_dir = extract_dir, !.pc = "backup",
                                        !.trace = <<Did("backup", "call", TRUE)>>]
    /\ UNCHANGED <<pushVars, coapVars, runVars, transfer>>
    /\ NoReply

\* NodeBackup going on whether or not _create_backup raised.
NodeBackupIgnoresFailure(ok) ==
    /\ pipeline.pc = "backup"
    /\ LET p == [pipeline EXCEPT !.trace = Append(@, Did("backup", "copy files", ok)),
                                 !.backup_exists = TRUE]
       IN  pipeline' =
             IF p.agent = "regular_node" THEN EnterInstall(p)
             ELSE [p EXCEPT !.pc = "download",
                            !.trace = Append(@, Did("download", "call", TRUE))]
    /\ UNCHANGED <<pushVars, coapVars, runVars, transfer>>
    /\ NoReply

\* _create_backup returned or raised; its directory exists from its first
\* statement on (mkdir, line 79) and nothing ever removes it.  regular_node
\* goes on to the install routine, regular_node_coap to _download_update.
NodeBackup(ok) ==
    /\ pipeline.pc = "backup"
    /\ LET p == [pipeline EXCEPT !.trace = Append(@, Did("backup", "copy files", ok)),
                                 !.backup_exists = TRUE]
       IN  pipeline' =
             IF ~ok THEN Return(p, ExceptionOutcome(BackupErrorMsg))
             ELSE IF p.agent = "regular_node" THEN EnterInstall(p)
             ELSE [p EXCEPT !.pc = "download",
                            !.trace = Append(@, Did("download", "call", TRUE))]
    /\ UNCHANGED <<pushVars, coapVars, runVars, transfer>>
    /\ NoReply

\* regular_node_coap lines 147-152: _download_update returned or raised; the
\* checksum, when one is declared, is verified; then the install routine.
NodeDownload(ok, match) ==
    /\ pipeline.pc = "download"
    /\ ok \/ match
    /\ LET p == [pipeline EXCEPT !.trace = Append(@, Did("download", "download", ok)),
                                 !.digest_match = match]
           v == [p EXCEPT !.trace = Append(@, Did("verify", "call", match))]
       IN  pipeline' =
             IF ~ok THEN Return(p, ExceptionOutcome(DownloadErrorMsg))
             ELSE IF ~p.d.checksum THEN EnterInstall(p)
             ELSE IF ~match THEN Return(v, ExceptionOutcome(ChecksumFailedMsg))
             ELSE EnterInstall(v)
    /\ UNCHANGED <<pushVars, coapVars, runVars, transfer>>
    /\ NoReply

\* What the install routine returns once its last operation ran: the service
\* routine tests "systemctl is-active", the others return success.
RoutineResult(update_type, last_ok) ==
    IF update_type = "service" /\ ~last_ok THEN InstallFailed(ServiceNotActiveMsg)
    ELSE InstallSucceeded

\* One operation of the install routine.  A command that fails only returns
\* its exit code and the routine goes on; a failed download raises and the
\* routine returns a failure.
NodeInstallOp(ok, match) ==
    /\ pipeline.pc = "install"
    /\ LET op == IF pipeline.todo = <<>> THEN "none" ELSE Head(pipeline.todo)
           rest == IF pipeline.todo = <<>> THEN <<>> ELSE Tail(pipeline.todo)
           counted == ~ok /\ op \notin Raising
           p == [pipeline EXCEPT
                    !.trace = IF op = "none" THEN @ ELSE Append(@, Did("install", op, ok)),
                    !.todo = rest,
                    !.failed = IF counted THEN @ + 1 ELSE @,
                    !.digest_match = IF op = "download" /\ ok THEN match ELSE @,
                    !.live = LiveAfter(@, pipeline.d.update_type, op, ok)]
       IN  /\ counted => pipeline.failed < MaxFailedCommands
           /\ (op = "none") => ok
           /\ (op # "download" \/ ~ok) => match
           /\ pipeline' =
                IF op = "download" /\ ~ok THEN AfterInstall(p, InstallFailed(DownloadErrorMsg))
                ELSE IF rest = <<>> THEN AfterInstall(p, RoutineResult(p.d.update_type, ok))
                ELSE p
    /\ UNCHANGED <<pushVars, coapVars, runVars, transfer>>
    /\ NoReply

\* install_update lines 50-60: _run_health_check, then return the result or
\* roll back.
NodeHealthCheck(h) ==
    /\ pipeline.pc = "health"
    /\ LET p == [pipeline EXCEPT !.trace = Append(@, Did("health", "health_check.sh", h))]
           result == WithHealth(p.result, h)
       IN  pipeline' = IF h THEN Return(p, result) ELSE EnterRollback(p, result)
    /\ UNCHANGED <<pushVars, coapVars, runVars, transfer>>
    /\ NoReply

\* One operation of _rollback_update.  Restoring the files raises when it
\* fails, and install_update's except branch answers; after the last
\* operation install_update returns (lines 56-60 and 65).
NodeRollbackOp(ok) ==
    /\ pipeline.pc = "rollback"
    /\ LET op == Head(pipeline.todo)
           rest == Tail(pipeline.todo)
           counted == ~ok /\ op \notin Raising
           p == [pipeline EXCEPT !.trace = Append(@, Did("rollback", op, ok)),
                                 !.todo = rest,
                                 !.failed = IF counted THEN @ + 1 ELSE @,
                                 !.live = LiveAfter(@, pipeline.d.update_type, op, ok)]
       IN  /\ counted => pipeline.failed < MaxFailedCommands
           /\ pipeline' =
                IF op \in Raising /\ ~ok THEN Return(p, ExceptionOutcome(RestoreErrorMsg))
                ELSE IF rest = <<>>
                     THEN Return(p, IF p.result.success THEN HealthFailedOutcome ELSE p.result)
                ELSE p
    /\ UNCHANGED <<pushVars, coapVars, runVars, transfer>>
    /\ NoReply

\* POST /agent/rollback of regular_node: the request is acknowledged with
\* {"success": True, "message": "Rollback completed for job ..."}; no backup
\* is looked up and nothing is restored.
ReceiveRollback(j) ==
    /\ reply' = [kind |-> "rollback_success", by |-> "regular_node", job |-> j,
                 view |-> NoView]
    /\ UNCHANGED <<pushVars, coapVars, pipeline, runVars, transfer>>

NodeNext ==
    \/ \E a \in AgentKinds, d \in Descriptors, x \in BOOLEAN : NodeReceiveUpdate(a, d, x)
    \/ \E ok \in BOOLEAN : NodeBackup(ok)
    \/ \E ok \in BOOLEAN, m \in BOOLEAN : NodeDownload(ok, m)
    \/ \E ok \in BOOLEAN, m \in BOOLEAN : NodeInstallOp(ok, m)
    \/ \E h \in BOOLEAN : NodeHealthCheck(h)
    \/ \E ok \in BOOLEAN : NodeRollbackOp(ok)
    \/ \E j \in JobIds : ReceiveRollback(j)

SpecNode == Init /\ [][NodeNext]_vars

\* ------------------------------------------- node agents: the update tasks
\* Start commands delivered to one node.
MaxStarts == 2

\* One handling of a start command on the node: the _process_update task of
\* regular_node_coap or the receive_update request of regular_node.  Its
\* position is where it is suspended: "created" (task not yet run),
\* "progress" (sending the progress message), "install" (inside
\* install_update, backup made, waiting for the payload), "report"
\* (install_update returned, sending the result), "done".  `sent` lists the
\* terminal reports (complete, failed) _process_update has sent.
Run(agent, job, at, success) ==
    [agent |-> agent, job |-> job, pc |-> at, success |-> success, sent |-> <<>>]

\* The node runs one of the two agents.
AgentIs(agent) == \A t \in DOMAIN runs : runs[t].agent = agent

\* handle_update_available: the update is stored under its id.
HandleUpdateAvailable(j) ==
    /\ AgentIs("regular_node_coap")
    /\ active_updates' = active_updates \cup {j}
    /\ UNCHANGED <<pushVars, coapVars, pipeline, runs, transfer>>
    /\ NoReply

\* The error start_update returns for an id it does not hold.
UpdateNotFoundMsg == "Update not found"

\* What start_update returns: {"success": True, ...} or
\* {"success": False, "error": "Update not found"}.
StartUpdateReply(j) ==
    IF j \in active_updates
    THEN [kind |-> "update_started", by |-> "regular_node_coap", job |-> j,
          view |-> NoView]
    ELSE [kind |-> "error", by |-> "regular_node_coap", job |-> j,
          view |-> [NoView EXCEPT !.error_message = UpdateNotFoundMsg]]

\* get_update_status of the node: in_progress for an id of active_updates,
\* not_found otherwise.
GetUpdateStatus(j) == IF j \in active_updates THEN "in_progress" ELSE "not_found"

\* start_update: "Update not found" for an id not in active_updates, else a
\* _process_update task is created.
StartUpdate(j) ==
    /\ AgentIs("regular_node_coap")
    /\ Len(runs) < MaxStarts
    /\ runs' = IF j \in active_updates
               THEN Append(runs, Run("regular_node_coap", j, "created", FALSE))
               ELSE runs
    /\ reply' = StartUpdateReply(j)
    /\ UNCHANGED <<pushVars, coapVars, pipeline, active_updates, transfer>>

\* _process_update starts running and sends the progress message.
ProcessUpdateBegin(t) ==
    /\ t \in DOMAIN runs
    /\ runs[t].pc = "created"
    /\ runs' = [runs EXCEPT ![t].pc = "progress"]
    /\ UNCHANGED <<pushVars, coapVars, pipeline, active_updates, transfer>>
    /\ NoReply

\* The progress message is out (or failed, which _send_coap_message only
\* logs); install_update is called, makes the backup and asks for the
\* payload, or returns the failure of the backup.
ProcessUpdateInstall(t, backup_ok) ==
    /\ t \in DOMAIN runs
    /\ runs[t].pc = "progress"
    /\ runs' = [runs EXCEPT ![t].pc = IF backup_ok THEN "install" ELSE "report"]
    /\ UNCHANGED <<pushVars, coapVars, pipeline, active_updates, transfer>>
    /\ NoReply

\* The payload arrived or the fetch failed; the rest of install_update runs
\* without suspending (subprocess.run blocks) and the result is being sent.
InstallUpdateResume(t, success) ==
    /\ t \in DOMAIN runs
    /\ runs[t].pc = "install"
    /\ runs' = [runs EXCEPT ![t].pc = "report", ![t].success = success]
    /\ UNCHANGED <<pushVars, coapVars, pipeline, active_updates, transfer>>
    /\ NoReply

\* The terminal report _process_update sends for a result (lines 92-111).
TerminalReport(success) == IF success THEN "complete" ELSE "failed"

\* ProcessUpdateEnd without the clean-up of lines 114-116.
ProcessUpdateEndKeepsUpdate(t) ==
    /\ t \in DOMAIN runs
    /\ runs[t].agent = "regular_node_coap"
    /\ runs[t].pc = "report"
    /\ runs' = [runs EXCEPT ![t].pc = "done",
                            ![t].sent = Append(@, TerminalReport(runs[t].success))]
    /\ UNCHANGED active_updates
    /\ UNCHANGED <<pushVars, coapVars, pipeline, transfer>>
    /\ NoReply

\* _process_update lines 92-116: the complete or failed report was sent and
\* the update is removed from active_updates.
ProcessUpdateEnd(t) ==
    /\ t \in DOMAIN runs
    /\ runs[t].agent = "regular_node_coap"
    /\ runs[t].pc = "report"
    /\ runs' = [runs EXCEPT ![t].pc = "done",
                            ![t].sent = Append(@, TerminalReport(runs[t].success))]
    /\ active_updates' = active_updates \ {runs[t].job}
    /\ UNCHANGED <<pushVars, coapVars, pipeline, transfer>>
    /\ NoReply

\* POST /agent/update of regular_node: install_update is called at once.  It
\* suspends only in _download_file (a package_url starting with "http");
\* otherwise it runs to its end within this step.
ReceiveUpdate(j, fetches, backup_ok, success) ==
    /\ AgentIs("regular_node")
    /\ active_updates = {}
    /\ Len(runs) < MaxStarts
    /\ fetches /\ backup_ok => ~success
    /\ runs' = Append(runs, Run("regular_node", j,
                                IF fetches /\ backup_ok THEN "install" ELSE "report",
                                backup_ok /\ success))
    /\ UNCHANGED <<pushVars, coapVars, pipeline, active_updates, transfer>>
    /\ NoReply

\* report_update_status was sent and receive_update answers the request.
ReceiveUpdateEnd(t) ==
    /\ t \in DOMAIN runs
    /\ runs[t].agent = "regular_node"
    /\ runs[t].pc = "report"
    /\ runs' = [runs EXCEPT ![t].pc = "done"]
    /\ UNCHANGED <<pushVars, coapVars, pipeline, active_updates, transfer>>
    /\ NoReply

RunsNext ==
    \/ \E j \in JobIds : HandleUpdateAvailable(j)
    \/ \E j \in JobIds : StartUpdate(j)
    \/ \E t \in 1..MaxStarts : ProcessUpdateBegin(t)
    \/ \E t \in 1..MaxStarts, ok \in BOOLEAN : ProcessUpdateInstall(t, ok)
    \/ \E t \in 1..MaxStarts, ok \in BOOLEAN : InstallUpdateResume(t, ok)
    \/ \E t \in 1..MaxStarts : ProcessUpdateEnd(t)
    \/ \E j \in JobIds, f \in BOOLEAN, b \in BOOLEAN, ok \in BOOLEAN :
          ReceiveUpdate(j, f, b, ok)
    \/ \E t \in 1..MaxStarts : ReceiveUpdateEnd(t)

SpecRuns == Init /\ [][RunsNext]_vars

\* ------------------------------------------- block-wise transfer: the steps
\* A firmware file of S bytes is placed for an update; a reader will fetch it
\* with block-size exponent szx.
TransferOpen(S, szx) ==
    /\ transfer.state \in {"idle", "done"}
    /\ transfer' = [NoTransfer EXCEPT !.state = "open", !.file = FileOfSize(S),
                                      !.szx = szx]
    /\ UNCHANGED <<pushVars, coapVars, pipeline, runVars>>
    /\ NoReply

\* _handle_block_transfer is called for a request carrying the block option
\* (num, szx).  `received` collects the payloads of the requests
\* that ask for the next block in order with the szx of the transfer, until
\* one is answered with m = false.
BlockRequest(num, szx) ==
    /\ transfer.state \in {"open", "done"}
    /\ LET request == [code |-> "GET", payload |-> <<>>, block1 |-> Block(num, FALSE, szx)]
           response == HandleBlockTransfer(transfer.file, request.block1)
           in_order == /\ transfer.state = "open"
                       /\ num = transfer.next
                       /\ szx = transfer.szx
       IN  transfer' =
             [transfer EXCEPT
                !.request = request,
                !.response = response,
                !.received = IF in_order THEN @ \o response.payload ELSE @,
                !.next = IF in_order THEN @ + 1 ELSE @,
                !.state = IF in_order /\ ~response.block1.m THEN "done" ELSE @]
    /\ UNCHANGED <<pushVars, coapVars, pipeline, runVars>>
    /\ NoReply

\* A GET arrives at the update resource of the coordinator.
RenderGetRequest(path_len, download, block1) ==
    /\ LET uri == Uri(MainServerCoap, path_len, download)
           request == [code |-> "GET", payload |-> <<>>, block1 |-> block1]
       IN  transfer' =
             [transfer EXCEPT
                !.uri = uri,
                !.request = request,
                !.response = RenderGet(transfer.state # "idle", transfer.file, uri, request),
                !.download = "none"]
    /\ UNCHANGED <<pushVars, coapVars, pipeline, runVars>>
    /\ NoReply

\* _download_update of regular_node_coap: one GET of the download_url it was
\* notified of, without a block option; the payload of a successful response
\* is written to download_path, any other response raises.  The URL names
\* the node's own address, where NodeUpdateResource answers.
DownloadUpdate(node, job) ==
    /\ LET uri == DownloadUrl(node, job)
           request == [code |-> "GET", payload |-> <<>>, block1 |-> NoBlock]
           response == IF uri.host = MainServerCoap
                       THEN RenderGet(transfer.state # "idle", transfer.file, uri, request)
                       ELSE NodeRenderGet(uri)
       IN  transfer' =
             [transfer EXCEPT
                !.uri = uri,
                !.request = request,
                !.response = response,
                !.download = IF IsSuccessful(response.code) THEN "completed" ELSE "failed",
                !.download_path = IF IsSuccessful(response.code) THEN response.payload
                                  ELSE <<>>]
    /\ UNCHANGED <<pushVars, coapVars, pipeline, runVars>>
    /\ NoReply

\* A block option a request may carry.
RequestBlocks == {NoBlock} \cup {Block(num, FALSE, szx) : num \in BlockNums, szx \in SzxValues}

DownloadNext ==
    \/ \E S \in FileSizes, szx \in SzxValues : TransferOpen(S, szx)
    \/ \E l \in 1..3, q \in BOOLEAN, b \in RequestBlocks : RenderGetRequest(l, q, b)
    \/ \E n \in NodeIds, j \in JobIds : DownloadUpdate(n, j)

SpecDownload == Init /\ [][DownloadNext]_vars

TransferNext ==
    \/ \E S \in FileSizes, szx \in SzxValues : TransferOpen(S, szx)
    \/ \E num \in BlockNums, szx \in SzxValues : BlockRequest(num, szx)

SpecTransfer == Init /\ [][TransferNext]_vars

\* ------------------------------------------------------------------- Next
Next ==
    \/ \E n \in NodeIds, s \in {ONLINE, OFFLINE} : RegisterNode(n, s)
    \/ \E n \in NodeIds, s \in {ONLINE, OFFLINE} : UpdateNodeStatus(n, s)
    \/ \E t \in TargetLists : Submit(t)
    \/ \E t \in TargetLists : SubmitRejected(t)
    \/ \E j \in JobIds : ExecuteStart(j)
    \/ \E j \in JobIds : ExecuteResolve(j)
    \/ \E j \in JobIds, i \in 1..MaxDispatch : SendUpdateStart(j, i)
    \/ \E j \in JobIds, i \in 1..MaxDispatch, o \in RemoteOutcomes, h \in BOOLEAN :
          SendUpdateFinish(j, i, o, h)
    \/ \E j \in JobIds : Aggregate(j)
    \/ \E j \in JobIds, n \in NodeIds : RollbackSend(j, n)
    \/ \E j \in JobIds, n \in NodeIds, o \in RollbackOutcomes : RollbackResolve(j, n, o)
    \/ \E j \in JobIds : Complete(j)

Spec == Init /\ [][Next]_vars

\* Runs of the push-style coordinator in which a second job is submitted
\* while the first is still executing.
OverlapNext ==
    \/ Next
    \/ \E t \in TargetLists : SubmitJob(MaxOverlappingJobs, t)

SpecOverlap == Init /\ [][OverlapNext]_vars

\* --------------------------------------------------------------- GetStatus
\* What get_job_status builds from the row Database.get_update_job SELECTs.
JobStatusView(row) ==
    [status |-> row.status, started_at |-> row.started_at,
     completed_at |-> row.completed_at, node_statuses |-> row.node_statuses,
     error_message |-> row.error_message]

\* What the notify-style get_update_status builds from the job of active_jobs
\* (it has no started_at and no completed_at).
CoapStatusView(job) ==
    [status |-> job.status, started_at |-> FALSE, completed_at |-> FALSE,
     node_statuses |-> job.node_statuses, error_message |-> job.error_message]

\* JobStatusReply answering with a view whether or not the row exists.
JobStatusReplyAlwaysFound(q) ==
    [kind |-> "job_status", by |-> "main_server", job |-> q,
     view |-> JobStatusView(dbJobs[q])]

\* get_job_status and GET /api/updates/{job_id}: {"error": "Job not found"}
\* (HTTP 404) when no row has the id, the view of the row otherwise.
JobStatusReply(q) ==
    IF dbJobs[q].status = None
    THEN [kind |-> "not_found", by |-> "main_server", job |-> q, view |-> NoView]
    ELSE [kind |-> "job_status", by |-> "main_server", job |-> q,
          view |-> JobStatusView(dbJobs[q])]

\* The notify-style get_update_status: {"error": "Update not found"} when the
\* id is not in active_jobs, the view of that job otherwise.
CoapStatusReply(q) ==
    IF coapJobs[q].status = None
    THEN [kind |-> "not_found", by |-> "main_server_coap", job |-> q, view |-> NoView]
    ELSE [kind |-> "update_status", by |-> "main_server_coap", job |-> q,
          view |-> CoapStatusView(coapJobs[q])]

\* UpdateManager.active_jobs of the push-style coordinator: created empty by
\* __init__, and no statement of main_server adds a job to it.
active_jobs == {}

\* get_all_jobs behind GET /api/updates: get_job_status of every key of
\* active_jobs.
GetAllJobs == [j \in active_jobs |-> JobStatusReply(j)]

\* The notify-style get_update_info of a job of active_jobs: the fields of
\* the in-memory job.
CoapUpdateInfo(job) ==
    [status |-> job.status, started_at |-> job.started_at,
     completed_at |-> job.completed_at, target_nodes |-> job.target_nodes]

\* The notify-style get_all_updates: get_update_info of every key of
\* active_jobs (create_update puts every job it creates there).
CoapGetAllUpdates ==
    [j \in {k \in JobIds : coapJobs[k].status # None} |-> CoapUpdateInfo(coapJobs[j])]

\* GET /api/updates/{job_id} answered.
GetStatus(q) ==
    /\ reply' = JobStatusReply(q)
    /\ UNCHANGED <<pushVars, coapVars, pipeline, runVars, transfer>>

\* The status action of the notify-style update resource answered.
CoapGetStatus(q) ==
    /\ reply' = CoapStatusReply(q)
    /\ UNCHANGED <<pushVars, coapVars, pipeline, runVars, transfer>>

\* The two coordinators are separate programs with separate stores: a run is
\* a run of one of them, with status queries at any point of it.
StatusNext ==
    \/ CoapInit /\ (Next \/ \E q \in JobIds : GetStatus(q))
    \/ PushInit /\ (CoapNext \/ \E q \in JobIds : CoapGetStatus(q))

SpecStatus == Init /\ [][StatusNext]_vars



\* ================================================================= claims
Finished(j) == pc[j] = "done"
Dispatched(j) == Range(nodes[j])
RollbackSent(j, n) == rbTasks[j][n] \in {"sent", "done"}
Rows(j, n) == dbNodeStatuses[j][n]
RowStatuses(j, n) == {Rows(j, n)[i].status : i \in DOMAIN Rows(j, n)}
AllRows(j) == {r \in NodeIds \X (1..MaxDispatch) : r[2] \in DOMAIN Rows(j, r[1])}
\* The status recorded for node n in job j: its entry of job.node_statuses
\* and its NodeUpdateStatus rows.
RecordedSuccess(j, n) ==
    /\ jobs[j].node_statuses[n] = SUCCESS
    /\ RowStatuses(j, n) = {SUCCESS}
RecordedFailed(j, n) ==
    \/ jobs[j].node_statuses[n] = FAILED
    \/ FAILED \in RowStatuses(j, n)

\* C1: for every finished job with a non-empty dispatched node set, the job
\* is SUCCESS if and only if every dispatched node's recorded status is SUCCESS.
C1_SuccessIffAllDispatchedSuccess ==
    \A j \in JobIds :
        (Finished(j) /\ nodes[j] # <<>>) =>
            (jobs[j].status = SUCCESS <=> \A n \in Dispatched(j) : RecordedSuccess(j, n))

\* C2: when a dispatched node of a finished job ended FAILED, a rollback call
\* was sent to that node and the job is FAILED, in memory and in the store.
C2_FailedNodeRolledBackJobFailed ==
    \A j \in JobIds : \A n \in Dispatched(j) :
        (Finished(j) /\ RecordedFailed(j, n)) =>
            /\ RollbackSent(j, n)
            /\ jobs[j].status = FAILED
            /\ dbJobs[j].status = FAILED

\* C3: in a finished job with both succeeded and failed dispatch results, the
\* nodes a rollback call was sent to are exactly the nodes recorded FAILED,
\* and no node recorded SUCCESS received one.
C3_MixedRollbackExactlyFailed ==
    \A j \in JobIds :
        (Finished(j) /\ SuccessCount(results[j]) > 0 /\ FailedCount(results[j]) > 0) =>
            /\ jobs[j].status = FAILED
            /\ \A n \in Dispatched(j) :
                  /\ RecordedFailed(j, n) => RollbackSent(j, n)
                  /\ RecordedSuccess(j, n) => ~RollbackSent(j, n)

\* C4: when no dispatched node of a finished job succeeded (and at least one
\* was dispatched), the job is FAILED and a rollback call was sent to every
\* dispatched node.
C4_ZeroSuccessRollbackAll ==
    \A j \in JobIds :
        (Finished(j) /\ nodes[j] # <<>> /\ SuccessCount(results[j]) = 0) =>
            /\ jobs[j].status = FAILED
            /\ dbJobs[j].status = FAILED
            /\ \A n \in Dispatched(j) : RollbackSent(j, n)

C4_Witness ==
    \E j \in JobIds :
        /\ Finished(j)
        /\ Dispatched(j) = NodeIds
        /\ SuccessCount(results[j]) = 0
        /\ \A n \in NodeIds : rbTasks[j][n] = "done"

\* No NodeUpdateStatus row, install call or rollback call exists for job j.
NothingDispatched(j) ==
    /\ \A n \in NodeIds : Rows(j, n) = <<>> /\ rbTasks[j][n] = None
    /\ tasks[j] = <<>>
NoTargetOnline(j) ==
    \A i \in DOMAIN jobs[j].target_nodes : registry[jobs[j].target_nodes[i]] # ONLINE
\* The step of job j's execution that resolves its targets.
ResolveStep(j) == pc[j] = "resolve" /\ pc'[j] # "resolve"
EndsFailedNoDispatch(j, msg) ==
    /\ pc'[j] = "done"
    /\ jobs'[j].status = FAILED /\ dbJobs'[j].status = FAILED
    /\ jobs'[j].error_message = msg /\ dbJobs'[j].error_message = msg
    /\ NothingDispatched(j)'

\* C5 as stated: when Execute resolves the targets and none is ONLINE, the job
\* ends FAILED with error_message "no online nodes available" and no
\* NodeUpdateStatus record, install call or rollback call exists for it.
C5_NoOnlineNodes_AsStated ==
    [][\A j \in JobIds : (ResolveStep(j) /\ NoTargetOnline(j)) =>
            EndsFailedNoDispatch(j, "no online nodes available")]_vars

\* C5 amended: the same, with the error_message the code sets,
\* "No online nodes available for update"; and such a job never gets a
\* NodeUpdateStatus record, an install call or a rollback call.
C5_NoOnlineNodes ==
    /\ [][\A j \in JobIds : (ResolveStep(j) /\ NoTargetOnline(j)) =>
              EndsFailedNoDispatch(j, "No online nodes available for update")]_vars
    /\ [](\A j \in JobIds :
              (Finished(j) /\ jobs[j].error_message # None) => NothingDispatched(j))

C5_Witness ==
    \E j \in JobIds :
        /\ Finished(j)
        /\ jobs[j].target_nodes # <<>>
        /\ nodes[j] = <<>>
        /\ jobs[j].error_message = NoOnlineNodesMsg

\* C6 as stated: a job is SUCCESS only if every node of its request's
\* target_nodes has status SUCCESS for that job.
C6_SuccessOnlyIfAllTargets_AsStated ==
    \A j \in JobIds :
        jobs[j].status = SUCCESS =>
            \A n \in Range(jobs[j].target_nodes) : RecordedSuccess(j, n)

\* C6 amended: a job is SUCCESS only if every dispatched node (ONLINE when
\* Execute resolved it) has status SUCCESS for that job; a target that was
\* not ONLINE then has no status for the job at all.
C6_SuccessOnlyIfAllDispatched ==
    \A j \in JobIds :
        jobs[j].status = SUCCESS =>
            /\ nodes[j] # <<>>
            /\ \A n \in Dispatched(j) : RecordedSuccess(j, n)
            /\ \A n \in Range(jobs[j].target_nodes) \ Dispatched(j) :
                  jobs[j].node_statuses[n] = None /\ Rows(j, n) = <<>>

C6_Witness ==
    \E j \in JobIds :
        /\ jobs[j].status = SUCCESS
        /\ Range(jobs[j].target_nodes) = NodeIds
        /\ Cardinality(Dispatched(j)) = 1

\* C7: once a job's execution has finished, its NodeUpdateStatus rows in a
\* terminal state are as many as the nodes dispatched, and each received
\* exactly one terminal write.
C7_OneTerminalWritePerDispatch ==
    \A j \in JobIds :
        Finished(j) =>
            /\ Cardinality({r \in AllRows(j) :
                   Rows(j, r[1])[r[2]].status \in {SUCCESS, FAILED}}) = Len(nodes[j])
            /\ \A r \in AllRows(j) : Rows(j, r[1])[r[2]].writes = 1

\* C8: in both coordinators, once a job's completed_at is stamped no step
\* changes its status, in memory or in the Job Store.
C8_StatusFinalAfterCompleted ==
    [][\A j \in JobIds :
          /\ jobs[j].completed_at =>
                jobs'[j].status = jobs[j].status /\ dbJobs'[j].status = dbJobs[j].status
          /\ coapJobs[j].completed_at =>
                coapJobs'[j].status = coapJobs[j].status
                /\ coapDbJobs'[j].status = coapDbJobs[j].status]_vars

\* The edges of the Job state machine (None -> PENDING is the creation).
JobEdges ==
    {<<None, PENDING>>, <<PENDING, IN_PROGRESS>>, <<IN_PROGRESS, SUCCESS>>,
     <<IN_PROGRESS, FAILED>>, <<FAILED, ROLLED_BACK>>}

\* C9: in the push-style coordinator every change of a job's status, in
\* memory and in the Job Store, follows an edge of the Job state machine.
C9_StatusFollowsStateMachine ==
    [][\A j \in JobIds :
          /\ jobs'[j].status # jobs[j].status =>
                <<jobs[j].status, jobs'[j].status>> \in JobEdges
          /\ dbJobs'[j].status # dbJobs[j].status =>
                <<dbJobs[j].status, dbJobs'[j].status>> \in JobEdges]_vars

C9_Witness ==
    \E j \in JobIds :
        /\ Finished(j)
        /\ jobs[j].status = FAILED /\ dbJobs[j].status = FAILED
        /\ nodes[j] # <<>>

\* C10: no job exists, in memory or persisted, for a request whose
\* target_nodes is empty.
C10_EmptyTargetsRejected ==
    \A j \in JobIds :
        (jobs[j].status # None \/ dbJobs[j].status # None) => jobs[j].target_nodes # <<>>

\* A request naming a node that is not registered or not ONLINE.
HasInvalidTarget(targets) ==
    \E i \in DOMAIN targets : registry[targets[i]] # ONLINE
\* Job j comes into existence in this step: object, row or scheduled execution.
JobCreated(j) ==
    \/ jobs[j].status = None /\ jobs'[j].status # None
    \/ dbJobs[j].status = None /\ dbJobs'[j].status # None
    \/ pc[j] = None /\ pc'[j] # None

\* C11: in the push-style coordinator a request naming a target that is
\* unknown or not ONLINE is answered with HTTP 400, and no step creates,
\* persists or schedules a job for such a request (so no node is contacted
\* for it): every job that comes into existence has only targets that were
\* ONLINE when it was submitted.
C11_InvalidTargetRejected ==
    /\ [](\A t \in TargetLists : HasInvalidTarget(t) => CreateUpdateResponse(t) = 400)
    /\ [][\A j \in JobIds : JobCreated(j) => ~HasInvalidTarget(jobs'[j].target_nodes)]_vars

\* A request mixing an ONLINE node with a registered node that is not ONLINE
\* is refused while nothing exists for it.
C11_Witness ==
    /\ \E t \in TargetLists :
          /\ \E i \in DOMAIN t : registry[t[i]] = ONLINE
          /\ \E i \in DOMAIN t : registry[t[i]] = OFFLINE
          /\ CreateUpdateResponse(t) = 400
          /\ ENABLED SubmitRejected(t)
    /\ \A j \in JobIds : jobs[j].status = None /\ dbJobs[j].status = None /\ pc[j] = None

\* C12: after a job has finished, the view GetStatus returns (built from the
\* persisted row) equals the same projection of the orchestrator's own Job
\* record: status, started_at, completed_at, error_message and node_statuses.
C12_StatusViewEqualsJobRecord ==
    \A j \in JobIds :
        Finished(j) =>
            /\ JobStatusReply(j).kind = "job_status"
            /\ JobStatusReply(j).view = JobStatusView(jobs[j])

\* The reply the state carries is the right one for the job it names.
ReplyMatchesStore ==
    /\ (reply.kind = "not_found" /\ reply.by = "main_server") =>
          jobs[reply.job].status = None /\ dbJobs[reply.job].status = None
    /\ reply.kind = "job_status" =>
          /\ dbJobs[reply.job].status # None
          /\ reply.view = JobStatusView(dbJobs[reply.job])
    /\ (reply.kind = "not_found" /\ reply.by = "main_server_coap") =>
          coapJobs[reply.job].status = None /\ coapDbJobs[reply.job].status = None
    /\ reply.kind = "update_status" =>
          /\ coapJobs[reply.job].status # None
          /\ reply.view.status = coapJobs[reply.job].status
          /\ reply.view.node_statuses = coapJobs[reply.job].node_statuses
          /\ reply.view.error_message = coapJobs[reply.job].error_message

\* C13: in both coordinators a status query is answered "not found" exactly
\* for an id no job was created with and with that job's view otherwise, and
\* the step that answers it changes no Job, NodeUpdateStatus or node record.
C13_GetStatusReadOnlyTotal ==
    /\ []ReplyMatchesStore
    /\ [][reply'.kind # "none" => UNCHANGED <<pushVars, coapVars, pipeline, runVars, transfer>>]_vars

C13_Witness ==
    /\ reply.kind = "job_status"
    /\ Finished(reply.job)
    /\ reply.view.status = FAILED
    /\ nodes[reply.job] # <<>>

\* C14: the dispatch to a resolved node never waits for the call to another
\* node to resolve.  Push-style: no dispatch task has finished while another
\* has not yet issued its call.  Notify-style: while the notification of one
\* node is unresolved, every resolved node of that execution was contacted.
C14_DispatchTasksIndependent ==
    /\ \A j \in JobIds :
          (\E i \in DOMAIN tasks[j] : tasks[j][i] = "done") =>
              \A k \in DOMAIN tasks[j] : tasks[j][k] # "created"
    /\ \A e \in DOMAIN coapExecs :
          coapExecs[e].pc = "notify" => coapExecs[e].idx = Len(coapExecs[e].nodes)

\* ------------------------------------------------- claims on the node agents
Returned == pipeline.pc = "returned"
\* Entries of the record of the call, by step.
Entries(step) == {i \in DOMAIN pipeline.trace : pipeline.trace[i].step = step}
Calls(step) == {i \in Entries(step) : pipeline.trace[i].op = "call"}
Operations(step) == Entries(step) \ Calls(step)
FailedOperations(step) == {i \in Operations(step) : ~pipeline.trace[i].ok}
\* The install routine returned {"success": True}.
InstallReportedSuccess == Calls("install") # {} /\ pipeline.result.success
InstallReportedFailure == Calls("install") # {} /\ ~pipeline.result.success
HealthCheckPassed == Operations("health") # {} /\ FailedOperations("health") = {}
HealthCheckFailed == FailedOperations("health") # {}
RestoreRaised ==
    \E i \in FailedOperations("rollback") : pipeline.trace[i].op \in Raising

\* C15: a NodeUpdateStatus written SUCCESS for an agent's result has
\* health_check_passed = true and belongs to a run in which no operation of
\* the install step failed and the health check passed; every other terminal
\* status written is FAILED.
C15_SuccessOnlyIfInstallAndHealthPassed ==
    (Returned /\ pipeline.agent = "regular_node") =>
        LET written == StatusWrittenFor(pipeline.outcome)
        IN  /\ written.status \in {SUCCESS, FAILED}
            /\ written.status = SUCCESS =>
                  /\ written.health_check_passed
                  /\ HealthCheckPassed
                  /\ FailedOperations("install") = {}

\* C16: in both agents, a run whose payload does not match the declared
\* checksum never calls an install routine, performs no rollback and returns
\* a failure.
C16_ChecksumMismatchNeverInstalls ==
    (Returned /\ pipeline.d.checksum /\ ~pipeline.digest_match) =>
        /\ Entries("install") = {}
        /\ Entries("rollback") = {}
        /\ ~pipeline.outcome.success

\* C17 as stated: when the install routine reported success and the health
\* check failed, _rollback_update was called exactly once and the outcome has
\* success = false and rolled_back = true.
C17_HealthGatedRollback_AsStated ==
    (Returned /\ InstallReportedSuccess /\ HealthCheckFailed) =>
        /\ Cardinality(Calls("rollback")) = 1
        /\ ~Get(pipeline.outcome, "success", FALSE)
        /\ Get(pipeline.outcome, "rolled_back", FALSE)

\* C17 amended: ... _rollback_update was called exactly once and the outcome
\* has success = false; it has rolled_back = true when the restore completed,
\* and when the restore raised it carries the error and no rolled_back.
C17_HealthGatedRollback ==
    (Returned /\ InstallReportedSuccess /\ HealthCheckFailed) =>
        /\ Cardinality(Calls("rollback")) = 1
        /\ ~Get(pipeline.outcome, "success", FALSE)
        /\ ~RestoreRaised =>
              /\ Get(pipeline.outcome, "rolled_back", FALSE)
              /\ pipeline.outcome.error_message = HealthFailedMsg
        /\ RestoreRaised =>
              /\ "rolled_back" \notin pipeline.outcome.keys
              /\ pipeline.outcome.error_message = RestoreErrorMsg

C17_Witness ==
    /\ Returned /\ InstallReportedSuccess /\ HealthCheckFailed
    /\ pipeline.d.update_type = "service"
    /\ Operations("rollback") # {}
    /\ ~RestoreRaised
    /\ Get(pipeline.outcome, "rolled_back", FALSE)

\* C18: when the install routine reported a failure, _rollback_update was
\* called, no health check decided anything, and the outcome is
\* {success = false, rolled_back = true, health_check_passed = false}.
C18_InstallFailureRollsBack ==
    (Returned /\ InstallReportedFailure) =>
        /\ Cardinality(Calls("rollback")) = 1
        /\ Entries("health") = {}
        /\ ~Get(pipeline.outcome, "success", FALSE)
        /\ Get(pipeline.outcome, "rolled_back", FALSE)
        /\ ~Get(pipeline.outcome, "health_check_passed", FALSE)

\* C19: when an operation of the install sequence failed, it is the last
\* operation of that sequence that ran, the install routine reported a
\* failure, _rollback_update was called and the outcome is a failure.
C19_FailedOperationAbortsInstall ==
    \A i \in FailedOperations("install") :
        /\ \A k \in Operations("install") : k <= i
        /\ Returned =>
              /\ InstallReportedFailure
              /\ Calls("rollback") # {}
              /\ ~pipeline.outcome.success

\* C20: when _create_backup failed, nothing else ran (no download, no
\* verification, no install routine, no health check, no restore) and the
\* outcome is a failure without rolled_back.
C20_BackupFailureStopsEverything ==
    FailedOperations("backup") # {} =>
        /\ Returned
        /\ \A i \in DOMAIN pipeline.trace : pipeline.trace[i].step = "backup"
        /\ ~Get(pipeline.outcome, "success", FALSE)
        /\ "rolled_back" \notin pipeline.outcome.keys

C20_Witness ==
    /\ Returned
    /\ FailedOperations("backup") # {}
    /\ pipeline.agent = "regular_node_coap"
    /\ pipeline.d.update_type = "service"
    /\ pipeline.outcome = ExceptionOutcome(BackupErrorMsg)

\* Operations that change the live system: a service stopped, files
\* replaced, a module unloaded or loaded, a package installed.
MutatingOps ==
    {"systemctl stop", "tar -xzf", "cp -r", "cp", "rmmod", "modprobe",
     "dpkg -i", "apt-get install", "restore files", "systemctl start"}
\* The fetch of the payload failed at entry i of the record.
FetchFailedAt(i) == pipeline.trace[i].op = "download" /\ ~pipeline.trace[i].ok

\* C21: when the fetch of the payload fails, no operation that changes the
\* live system ran before it, and the call ends in a failure without any
\* restore being run.
C21_FetchFailsBeforeMutation ==
    \A i \in DOMAIN pipeline.trace :
        FetchFailedAt(i) =>
            /\ \A k \in 1..(i - 1) : pipeline.trace[k].op \notin MutatingOps
            /\ Returned =>
                  /\ ~Get(pipeline.outcome, "success", FALSE)
                  /\ Entries("rollback") = {}

\* ------------------------------------------- claims on the update tasks
\* Task u calls install_update in this step.
CallsInstallUpdate(u) ==
    /\ u \in DOMAIN runs'
    /\ runs'[u].pc \in {"install", "report"}
    /\ u \in DOMAIN runs => runs[u].pc = "progress"

\* C22: while an install_update call for a job is between its backup and its
\* return on a node, no other install_update call for that job starts there.
C22_NoOverlappingInstall ==
    [][\A t \in DOMAIN runs :
          runs[t].pc = "install" =>
              \A u \in 1..MaxStarts :
                  (u # t /\ CallsInstallUpdate(u)) => runs'[u].job # runs[t].job]_vars

\* ----------------------------------------- claims on backups and live state
\* C23: when the install routine reported success and the health check
\* passed, install_update returns success = true, health_check_passed = true
\* and the backup it made exists no more; nor does it exist once a rollback
\* has run to its end.
C23_SuccessDiscardsBackup ==
    /\ (Returned /\ InstallReportedSuccess /\ HealthCheckPassed) =>
          /\ Get(pipeline.outcome, "success", FALSE)
          /\ Get(pipeline.outcome, "health_check_passed", FALSE)
          /\ ~pipeline.backup_exists
    /\ (Returned /\ Calls("rollback") # {} /\ ~RestoreRaised) => ~pipeline.backup_exists

\* What the step just taken added to the record of the call.
NewEntries == {i \in DOMAIN pipeline'.trace : i \notin DOMAIN pipeline.trace}

\* C24: called after install_update returned, the rollback entry point
\* answers success only when it restored the backup in that step, and it
\* never starts the install again.
C24_RollbackEntryRestores ==
    [][(Returned /\ reply'.kind = "rollback_success") =>
          /\ \E i \in NewEntries : pipeline'.trace[i].op = "restore files"
          /\ pipeline'.pc = pipeline.pc]_vars

\* C25: for every update type, when install_update returns rolled_back =
\* true the live state of (package_name, update_type) is the state it had
\* when the backup was made.
C25_RollbackRestoresLiveState ==
    (Returned /\ Get(pipeline.outcome, "rolled_back", FALSE)) =>
        pipeline.live = InitialLive

\* ------------------------------------------ claims on the block-wise transfer
BlockSize(szx) == Pow2(4 + szx)

AskedForBlock(num) ==
    /\ transfer.request.block1.present
    /\ transfer.request.block1.num = num

\* C28: the node's download asks for blocks 0, 1, 2, ... and is complete
\* only on a response with m = false, what it wrote being the file; a failed
\* request leaves nothing downloaded.
C28_ClientBlockAssembly ==
    /\ transfer.download # "none" => \E num \in BlockNums : AskedForBlock(num)
    /\ transfer.download = "completed" =>
          /\ transfer.response.block1.present
          /\ ~transfer.response.block1.m
          /\ transfer.state # "idle" => transfer.download_path = transfer.file
    /\ transfer.download = "failed" => transfer.download_path = <<>>

\* The request is a download request on the update resource of the
\* coordinator, for an update whose firmware file exists.
IsDownloadRequest ==
    /\ transfer.state # "idle"
    /\ transfer.request.code = "GET"
    /\ transfer.uri.host = MainServerCoap
    /\ \/ transfer.uri.path_len = 2 /\ transfer.uri.download
       \/ transfer.uri.path_len = 3

\* C29: a download request without a block option is answered with the whole
\* file in one response, one with a block option by the block reader, and the
\* request a node makes of the download_url it was notified of goes to the
\* coordinator.
C29_FirmwareDownload ==
    /\ IsDownloadRequest =>
          IF transfer.request.block1.present
          THEN transfer.response = HandleBlockTransfer(transfer.file, transfer.request.block1)
          ELSE /\ transfer.response.code = "CONTENT"
               /\ transfer.response.payload = transfer.file
               /\ ~transfer.response.block1.present
    /\ transfer.download # "none" => transfer.uri.host = MainServerCoap

\* ------------------------------------------------ claims on error handling
\* Dispatch task i of job j ends in this step with a failure.
DispatchFails(j, i) ==
    /\ i \in DOMAIN tasks[j]
    /\ tasks[j][i] = "sent"
    /\ tasks'[j][i] = "done"
    /\ results'[j][i] = FAILED

\* C30: a dispatch task that ends with a failure (failure outcome, non-200
\* response, timeout or exception) leaves its node's NodeUpdateStatus FAILED
\* with an error_message and leaves the job where it was, its error_message
\* untouched; and a job has an error_message only when it failed for having
\* no online target, nothing having been dispatched.
C30_NodeFailuresStayNodeLevel ==
    [][/\ \A j \in JobIds, i \in 1..MaxDispatch :
             DispatchFails(j, i) =>
                 LET rows == dbNodeStatuses'[j][nodes[j][i]]
                 IN  /\ rows # <<>>
                     /\ \A r \in DOMAIN rows :
                            /\ rows[r].status = FAILED
                            /\ rows[r].error_message # None
                     /\ jobs'[j] = jobs[j]
                     /\ dbJobs'[j] = dbJobs[j]
                     /\ pc'[j] = "gather"
       /\ \A j \in JobIds :
             jobs'[j].error_message # None =>
                 /\ jobs'[j].error_message = NoOnlineNodesMsg
                 /\ jobs'[j].status = FAILED
                 /\ tasks'[j] = <<>>]_vars

C30_Witness ==
    \E j \in JobIds :
        /\ pc[j] = "done"
        /\ jobs[j].status = FAILED
        /\ jobs[j].error_message = None
        /\ \E i \in DOMAIN results[j] : results[j][i] = FAILED
        /\ \E i \in DOMAIN results[j] : results[j][i] = SUCCESS

\* ------------------------------------------------ claims on the outcome
\* C31: the dict install_update returns carries success,
\* health_check_passed and rolled_back on every path, and an error_message
\* whenever success is false.
C31_OutcomeCompletelyFilled ==
    Returned =>
        /\ {"success", "health_check_passed", "rolled_back"} \subseteq pipeline.outcome.keys
        /\ ~pipeline.outcome.success =>
              /\ "error_message" \in pipeline.outcome.keys
              /\ pipeline.outcome.error_message # None

\* ------------------------------------ claims on the notify-style coordinator
\* The _execute_update_job tasks created for job j.
CoapExecsOf(j) == {e \in DOMAIN coapExecs : coapExecs[e].job = j}
\* Job j was triggered and every task created for it has run to its end.
CoapExecutionOver(j) ==
    /\ CoapExecsOf(j) # {}
    /\ \A e \in CoapExecsOf(j) : coapExecs[e].pc = "done"
\* The NodeUpdateStatus rows of job j in the notify-style store.
CoapRowStatuses(j) ==
    UNION {{coapDbNodeStatuses[j][n][i].status :
                i \in DOMAIN coapDbNodeStatuses[j][n]} : n \in NodeIds}

\* C32: once the execution of a triggered job is over, the job is SUCCESS or
\* FAILED with completed_at set (FAILED when a dispatched node is FAILED) and
\* no NodeUpdateStatus of it is PENDING.
C32_TriggeredJobTerminates ==
    \A j \in JobIds :
        CoapExecutionOver(j) =>
            /\ coapJobs[j].status \in {SUCCESS, FAILED}
            /\ coapJobs[j].completed_at
            /\ FAILED \in CoapRowStatuses(j) => coapJobs[j].status = FAILED
            /\ PENDING \notin CoapRowStatuses(j)

\* ------------------------------------------- claims on records and dispatch
\* The install dispatches of job j that went to node n.
DispatchesTo(j, n) == {i \in DOMAIN nodes[j] : nodes[j][i] = n}
\* The notifications of job j that went to node n, over all its executions.
CoapNotificationsTo(j, n) ==
    {<<e, i>> \in CoapExecsOf(j) \X (1..MaxDispatch) :
        /\ i \in DOMAIN coapExecs[e].nodes
        /\ coapExecs[e].nodes[i] = n
        /\ \/ i < coapExecs[e].idx
           \/ coapExecs[e].pc = "done"
           \/ i = coapExecs[e].idx /\ coapExecs[e].pc = "notify"}

\* C33: a (node_id, job_id) pair has at most one NodeUpdateStatus record and
\* at most one install dispatch, in either coordinator.
C33_OneRecordOneDispatchPerNodeAndJob ==
    \A j \in JobIds : \A n \in NodeIds :
        /\ Len(Rows(j, n)) <= 1
        /\ Cardinality(DispatchesTo(j, n)) <= 1
        /\ Len(coapDbNodeStatuses[j][n]) <= 1
        /\ Cardinality(CoapNotificationsTo(j, n)) <= 1

\* An install call of job j to node n is in flight.
CallInFlight(j, n) == \E i \in DispatchesTo(j, n) : tasks[j][i] = "sent"
\* A notification of job j to node n is in flight.
NotificationInFlight(j, n) ==
    \E e \in CoapExecsOf(j) :
        /\ coapExecs[e].pc = "notify"
        /\ coapExecs[e].nodes[coapExecs[e].idx] = n

\* C34: a NodeUpdateStatus record is created with status PENDING, and a
\* remote call or notification for (node, job) is in flight only while its
\* record exists.
C34_RecordPendingBeforeCall ==
    [][\A j \in JobIds : \A n \in NodeIds :
          /\ Len(Rows(j, n)') > Len(Rows(j, n)) =>
                Rows(j, n)'[Len(Rows(j, n)')].status = PENDING
          /\ Len(coapDbNodeStatuses'[j][n]) > Len(coapDbNodeStatuses[j][n]) =>
                coapDbNodeStatuses'[j][n][Len(coapDbNodeStatuses'[j][n])].status = PENDING
          /\ CallInFlight(j, n)' => Rows(j, n)' # <<>>
          /\ NotificationInFlight(j, n)' => coapDbNodeStatuses'[j][n] # <<>>]_vars

\* The nodes some execution of notify-style job j resolved as ONLINE.
CoapDispatched(j) == UNION {Range(coapExecs[e].nodes) : e \in CoapExecsOf(j)}

RollbackCall(j, n) == rbTasks[j][n] # None
\* The terminal statuses of a job.
TerminalStatuses == {SUCCESS, FAILED, ROLLED_BACK}

\* C36: a rollback call exists only when every install dispatch of the job
\* has resolved; the persisted terminal status and completed_at are written
\* only when every rollback call of the job has resolved; a job that is
\* SUCCESS has no rollback call.
C36_RollbackAfterDispatchBeforeCompletion ==
    \A j \in JobIds : \A n \in NodeIds :
        /\ RollbackCall(j, n) => \A i \in DOMAIN tasks[j] : tasks[j][i] = "done"
        /\ (dbJobs[j].status \in TerminalStatuses \/ jobs[j].completed_at
               \/ dbJobs[j].completed_at) =>
              rbTasks[j][n] \in {None, "done"}
        /\ (jobs[j].status = SUCCESS \/ dbJobs[j].status = SUCCESS) =>
              ~RollbackCall(j, n)

\* A job that finished FAILED after its rollback calls resolved.
C36_Witness ==
    \E j \in JobIds :
        /\ Finished(j)
        /\ dbJobs[j].status = FAILED
        /\ \E n \in NodeIds : rbTasks[j][n] = "done"

\* C37: a persisted job has completed_at set exactly when its persisted
\* status is terminal, and every write of a job's row leaves the persisted
\* status equal to the status of the in-memory Job.
C37_JobStoreConsistent ==
    [][\A j \in JobIds :
          /\ dbJobs'[j].status # None =>
                (dbJobs'[j].completed_at <=> dbJobs'[j].status \in TerminalStatuses)
          /\ dbJobs'[j] # dbJobs[j] => dbJobs'[j].status = jobs'[j].status]_vars

\* A job whose row was written IN_PROGRESS and then a terminal status.
C37_Witness ==
    \E j \in JobIds :
        /\ Finished(j)
        /\ jobs[j].started_at
        /\ dbJobs[j].status \in TerminalStatuses
        /\ dbJobs[j].completed_at

\* C38: a job whose Submit succeeded is in the answer of list-all-jobs, with
\* the status GetStatus reports for it, in either coordinator.
C38_ListAllJobsIncludesSubmitted ==
    \A j \in JobIds :
        /\ dbJobs[j].status # None =>
              /\ j \in DOMAIN GetAllJobs
              /\ GetAllJobs[j].view.status = JobStatusReply(j).view.status
        /\ coapJobs[j].status # None =>
              /\ j \in DOMAIN CoapGetAllUpdates
              /\ CoapGetAllUpdates[j].status = CoapStatusReply(j).view.status

\* ------------------------------------------------ claims on job isolation
\* What the coordinator holds and stores for job j, and where its execution is.
JobData(j) == <<jobs[j], dbJobs[j], dbNodeStatuses[j]>>
JobExecution(j) == <<pc[j], nodes[j], tasks[j], results[j], rbTasks[j]>>

\* C39: a step taken for one job (it moves that job's execution or changes
\* its records) leaves the Job, its node_statuses and the NodeUpdateStatus
\* records of every other job as they were.
C39_JobsIsolated ==
    [][\A j \in JobIds : \A k \in JobIds \ {j} :
          <<JobData(j), JobExecution(j)>>' # <<JobData(j), JobExecution(j)>> =>
              /\ JobData(k)' = JobData(k)
              /\ JobExecution(k)' = JobExecution(k)]_vars

\* Two jobs dispatched to the same node: the call of one is still in flight
\* when the other's has resolved and its terminal status was written.
C39_Witness ==
    \E j \in JobIds : \E k \in JobIds \ {j} : \E n \in NodeIds :
        /\ CallInFlight(k, n)
        /\ RowStatuses(k, n) = {IN_PROGRESS}
        /\ Rows(j, n) # <<>>
        /\ RowStatuses(j, n) \subseteq {SUCCESS, FAILED}

\* --------------------------------- claims on the notify-style node's tasks
\* The _process_update tasks of the notify-style node.
ProcessUpdateTasks == {t \in DOMAIN runs : runs[t].agent = "regular_node_coap"}
\* start_update answered in this step.
StartUpdateAnswered == reply'.by = "regular_node_coap"

\* C40: start_update for an id that is not in active_updates answers
\* "Update not found" and starts nothing; a _process_update task has sent one
\* terminal report, complete or failed, when it is over and none before; the
\* step that ends a task leaves its id out of active_updates, where
\* start_update fails and get_update_status reports not_found.
C40_StartReportAndCleanUp ==
    [][/\ (StartUpdateAnswered /\ reply'.job \notin active_updates) =>
              /\ reply'.kind = "error"
              /\ reply'.view.error_message = UpdateNotFoundMsg
              /\ runs' = runs
       /\ (StartUpdateAnswered /\ reply'.job \in active_updates) =>
              reply'.kind = "update_started"
       /\ \A t \in 1..MaxStarts :
              (t \in DOMAIN runs' /\ runs'[t].agent = "regular_node_coap") =>
                  /\ runs'[t].pc # "done" => runs'[t].sent = <<>>
                  /\ runs'[t].pc = "done" =>
                        runs'[t].sent \in {<<"complete">>, <<"failed">>}
                  /\ (t \in DOMAIN runs /\ runs[t].pc # "done"
                         /\ runs'[t].pc = "done") =>
                        /\ runs[t].job \notin active_updates'
                        /\ GetUpdateStatus(runs[t].job)' = "not_found"
                        /\ StartUpdateReply(runs[t].job)'.kind = "error"]_vars

\* A task ran to its end and sent its report, and a later start_update for
\* its id was answered "Update not found".
C40_Witness ==
    \E t \in ProcessUpdateTasks :
        /\ runs[t].pc = "done"
        /\ Len(runs[t].sent) = 1
        /\ reply.kind = "error"
        /\ reply.job = runs[t].job
        /\ reply.view.error_message = UpdateNotFoundMsg
====
